---- MODULE Spec2Model ----
(***************************************************************************)
(* A model of the ObsidianTools vault pipeline: vault scanning (glob),     *)
(* File Record building (FileProcessor.processFile[s]), frontmatter        *)
(* parse/serialize (MarkdownUtils), the organization strategies of         *)
(* FileOrganizer and the batch mutations of FileOrganizer/BatchProcessor.  *)
(*                                                                         *)
(* Representation                                                          *)
(*   - a path is a sequence of segments (strings) from the filesystem      *)
(*     root, <<"v","sub","a.md">> is /v/sub/a.md;                          *)
(*   - a text (a JS string holding file content) is the non-empty sequence *)
(*     of its lines, i.e. text.split('\n'); the empty string is <<"">>;    *)
(*   - a frontmatter mapping is the sequence of its [k, v] entries in      *)
(*     insertion order (JS object key order);                              *)
(*   - a frontmatter value is [ty, tx, items]: its JS type, its scalar     *)
(*     text and, for arrays, its items.                                    *)
(***************************************************************************)
EXTENDS Integers, Sequences, FiniteSets, TLC

\* ------------------------------------------------------------------------
\* Bounds of the model (not program constants)
\* ------------------------------------------------------------------------
MaxFiles == 2

MaxClock == 3
\* the longest filename handed to sanitizeFilename on its own
MaxNameLen == 4

\* ------------------------------------------------------------------------
\* String helpers (JS String methods used by the code)
\* ------------------------------------------------------------------------
\* s.charAt(i), 1-based: the empty string outside the string
CharAt(s, i) == IF i \in 1..Len(s) THEN SubSeq(s, i, i) ELSE ""

StartsWith(s, p) == Len(s) >= Len(p) /\ SubSeq(s, 1, Len(p)) = p

EndsWith(s, p) == Len(s) >= Len(p) /\ SubSeq(s, Len(s) - Len(p) + 1, Len(s)) = p

\* String.prototype.indexOf: 1-based index of the first occurrence, 0 if none
IndexOf(s, p) ==
    LET hits == {i \in 1..(Len(s) - Len(p) + 1) : SubSeq(s, i, i + Len(p) - 1) = p}
    IN IF hits = {} THEN 0 ELSE CHOOSE i \in hits : \A j \in hits : i <= j

Includes(s, p) == IndexOf(s, p) > 0

RECURSIVE ToLowerCase(_)
ToLowerCase(s) ==
    LET LowerChar(c) ==
            CASE c = "A" -> "a" [] c = "B" -> "b" [] c = "C" -> "c" [] c = "D" -> "d"
              [] c = "E" -> "e" [] c = "F" -> "f" [] c = "G" -> "g" [] c = "H" -> "h"
              [] c = "I" -> "i" [] c = "J" -> "j" [] c = "K" -> "k" [] c = "L" -> "l"
              [] c = "M" -> "m" [] c = "N" -> "n" [] c = "O" -> "o" [] c = "P" -> "p"
              [] c = "Q" -> "q" [] c = "R" -> "r" [] c = "S" -> "s" [] c = "T" -> "t"
              [] c = "U" -> "u" [] c = "V" -> "v" [] c = "W" -> "w" [] c = "X" -> "x"
              [] c = "Y" -> "y" [] c = "Z" -> "z" [] OTHER -> c
    IN  IF s = "" THEN "" ELSE LowerChar(CharAt(s, 1)) \o ToLowerCase(SubSeq(s, 2, Len(s)))

IsWhitespace(c) == c \in {" ", "\t", "\n", "\r"}

\* String.prototype.trimEnd
RECURSIVE TrimEnd(_)
TrimEnd(s) ==
    IF s # "" /\ IsWhitespace(CharAt(s, Len(s)))
    THEN TrimEnd(SubSeq(s, 1, Len(s) - 1))
    ELSE s

RECURSIVE TrimStart(_)
TrimStart(s) ==
    IF s # "" /\ IsWhitespace(CharAt(s, 1))
    THEN TrimStart(SubSeq(s, 2, Len(s)))
    ELSE s

Trim(s) == TrimStart(TrimEnd(s))

\* s.split(sep) for a one-character separator
RECURSIVE Split(_, _)
Split(s, sep) ==
    LET i == IndexOf(s, sep)
    IN IF i = 0 THEN <<s>>
       ELSE <<SubSeq(s, 1, i - 1)>> \o Split(SubSeq(s, i + 1, Len(s)), sep)

\* ------------------------------------------------------------------------
\* FileUtils (src/src/utils/file-utils.js)
\* ------------------------------------------------------------------------

\* .replace(/[<>:"/\\|?*]/g, '-')
RECURSIVE ReplaceInvalidChars(_)
ReplaceInvalidChars(s) ==
    LET InvalidFilenameChars == {"<", ">", ":", "\"", "/", "\\", "|", "?", "*"}
    IN  IF s = "" THEN ""
        ELSE (IF CharAt(s, 1) \in InvalidFilenameChars THEN "-" ELSE CharAt(s, 1))
             \o ReplaceInvalidChars(SubSeq(s, 2, Len(s)))

\* .replace(/\s+/g, '-')
RECURSIVE ReplaceWhitespaceRuns(_)
ReplaceWhitespaceRuns(s) ==
    IF s = "" THEN ""
    ELSE IF IsWhitespace(CharAt(s, 1))
         THEN "-" \o ReplaceWhitespaceRuns(TrimStart(s))
         ELSE CharAt(s, 1) \o ReplaceWhitespaceRuns(SubSeq(s, 2, Len(s)))

\* .replace(/-+/g, '-')
RECURSIVE CollapseHyphens(_)
CollapseHyphens(s) ==
    IF Len(s) < 2 THEN s
    ELSE IF CharAt(s, 1) = "-" /\ CharAt(s, 2) = "-"
         THEN CollapseHyphens(SubSeq(s, 2, Len(s)))
         ELSE CharAt(s, 1) \o CollapseHyphens(SubSeq(s, 2, Len(s)))

\* the chain without .replace(/-+/g, '-')
sanitizeFilenameKeepsRuns(filename) ==
    LET StripEdgeHyphens(s) ==
            LET a == IF StartsWith(s, "-") THEN SubSeq(s, 2, Len(s)) ELSE s
            IN IF EndsWith(a, "-") THEN SubSeq(a, 1, Len(a) - 1) ELSE a
    IN  StripEdgeHyphens(ReplaceWhitespaceRuns(ReplaceInvalidChars(filename)))

\* FileUtils.sanitizeFilename
sanitizeFilename(filename) ==
    LET \* .replace(/^-|-$/g, ''): one hyphen at the start, one at the end
        StripEdgeHyphens(s) ==
            LET a == IF StartsWith(s, "-") THEN SubSeq(s, 2, Len(s)) ELSE s
            IN IF EndsWith(a, "-") THEN SubSeq(a, 1, Len(a) - 1) ELSE a
    IN  StripEdgeHyphens(CollapseHyphens(ReplaceWhitespaceRuns(ReplaceInvalidChars(filename))))

\* ------------------------------------------------------------------------
\* Node's path module, on segment sequences
\* ------------------------------------------------------------------------
\* path.normalize for an absolute path: '' and '.' are dropped, '..' removes
\* the segment before it and is dropped at the root
RECURSIVE NormalizeFrom(_, _)
NormalizeFrom(done, rest) ==
    IF rest = <<>> THEN done
    ELSE LET h == Head(rest)
         IN IF h = "" \/ h = "." THEN NormalizeFrom(done, Tail(rest))
            ELSE IF h = ".."
                 THEN NormalizeFrom(IF done = <<>> THEN <<>>
                                    ELSE SubSeq(done, 1, Len(done) - 1), Tail(rest))
                 ELSE NormalizeFrom(Append(done, h), Tail(rest))

\* path.join(base, ...parts): every part is split on '/', then normalized
RECURSIVE SplitAll(_)
SplitAll(parts) ==
    IF parts = <<>> THEN <<>> ELSE Split(Head(parts), "/") \o SplitAll(Tail(parts))

pathJoin(base, parts) == NormalizeFrom(<<>>, base \o SplitAll(parts))

pathDirname(p) == SubSeq(p, 1, Len(p) - 1)

pathBasename(p) == p[Len(p)]

\* path.extname: from the last '.' of the basename, '' if there is none or
\* if the only '.' is the first character
pathExtname(p) ==
    LET \* String.prototype.lastIndexOf
        LastIndexOf(s, pat) ==
            LET hits == {i \in 1..(Len(s) - Len(pat) + 1) : SubSeq(s, i, i + Len(pat) - 1) = pat}
            IN IF hits = {} THEN 0 ELSE CHOOSE i \in hits : \A j \in hits : i >= j
    IN  LET b == pathBasename(p)
            i == LastIndexOf(b, ".")
        IN IF i <= 1 THEN "" ELSE SubSeq(b, i, Len(b))

IsStrictlyInside(p, d) == Len(d) < Len(p) /\ SubSeq(p, 1, Len(d)) = d

\* FileUtils.isMarkdownFile
isMarkdownFile(p) == ToLowerCase(pathExtname(p)) \in {".md", ".markdown", ".mdown", ".mkd"}

\* ------------------------------------------------------------------------
\* Frontmatter mappings: JS objects as entry sequences in insertion order
\* ------------------------------------------------------------------------
HasKey(m, k) == \E i \in 1..Len(m) : m[i].k = k

GetValue(m, k) == m[CHOOSE i \in 1..Len(m) : m[i].k = k].v

\* obj[k] = v: an existing key keeps its position, a new key is appended
SetValue(m, k, v) ==
    IF HasKey(m, k)
    THEN [i \in 1..Len(m) |-> IF m[i].k = k THEN [k |-> k, v |-> v] ELSE m[i]]
    ELSE Append(m, [k |-> k, v |-> v])

\* { ...a, ...b }
RECURSIVE SpreadMerge(_, _)
SpreadMerge(a, b) ==
    IF b = <<>> THEN a ELSE SpreadMerge(SetValue(a, Head(b).k, Head(b).v), Tail(b))

\* the mapping as a function of its keys (order forgotten)
AsFunction(m) == [k \in {m[i].k : i \in 1..Len(m)} |-> GetValue(m, k)]

\* ------------------------------------------------------------------------
\* Frontmatter values
\* ------------------------------------------------------------------------
Scalar(type, text) == [ty |-> type, tx |-> text, items |-> <<>>]

ArrVal(xs) == [ty |-> "array", tx |-> "", items |-> xs]

IsDigits(s) ==
    LET Digits == {"0", "1", "2", "3", "4", "5", "6", "7", "8", "9"}
    IN  s # "" /\ \A i \in 1..Len(s) : CharAt(s, i) \in Digits

\* Number(s).toString() for a string of decimal digits: leading zeros go
RECURSIVE CanonicalNumber(_)
CanonicalNumber(s) ==
    IF Len(s) > 1 /\ CharAt(s, 1) = "0" THEN CanonicalNumber(SubSeq(s, 2, Len(s))) ELSE s

\* MarkdownUtils.parseYamlValue for a scalar (no array)
parseYamlScalar(value) ==
    IF (StartsWith(value, "\"") /\ EndsWith(value, "\""))
       \/ (StartsWith(value, "'") /\ EndsWith(value, "'"))
    THEN Scalar("string", SubSeq(value, 2, Len(value) - 1))
    ELSE IF value = "true" \/ value = "false" THEN Scalar("boolean", value)
    ELSE IF value = "null" THEN Scalar("null", "null")
    ELSE IF IsDigits(value) THEN Scalar("number", CanonicalNumber(value))
    ELSE Scalar("string", value)

\* MarkdownUtils.parseYamlLike
RECURSIVE parseYamlLikeFrom(_, _)
parseYamlLikeFrom(result, lines) ==
    LET \* MarkdownUtils.parseYamlValue
        parseYamlValue(value) ==
            IF (StartsWith(value, "\"") /\ EndsWith(value, "\""))
               \/ (StartsWith(value, "'") /\ EndsWith(value, "'"))
               \/ value \in {"true", "false", "null"}
               \/ ~(StartsWith(value, "[") /\ EndsWith(value, "]"))
            THEN parseYamlScalar(value)
            ELSE LET arrayContent == SubSeq(value, 2, Len(value) - 1)
                     parts == Split(arrayContent, ",")
                 IN IF Trim(arrayContent) = "" THEN ArrVal(<<>>)
                    ELSE ArrVal([i \in 1..Len(parts) |-> parseYamlScalar(Trim(parts[i]))])
    IN  IF lines = <<>> THEN result
        ELSE LET trimmed == Trim(Head(lines))
                 colonIndex == IndexOf(trimmed, ":")
             IN IF trimmed = "" \/ StartsWith(trimmed, "#") \/ colonIndex = 0
                THEN parseYamlLikeFrom(result, Tail(lines))
                ELSE parseYamlLikeFrom(
                         SetValue(result,
                                  Trim(SubSeq(trimmed, 1, colonIndex - 1)),
                                  parseYamlValue(Trim(SubSeq(trimmed, colonIndex + 1, Len(trimmed))))),
                         Tail(lines))

\* .replace(/"/g, '\\"')
RECURSIVE EscapeQuotes(_)
EscapeQuotes(s) ==
    IF s = "" THEN ""
    ELSE (IF CharAt(s, 1) = "\"" THEN "\\\"" ELSE CharAt(s, 1))
         \o EscapeQuotes(SubSeq(s, 2, Len(s)))

\* MarkdownUtils.stringifyYamlValue for a scalar; a Date is none of the
\* tested types and is written as String(value)
stringifyYamlScalar(value) ==
    LET \* String(date) of the Date js-yaml builds from YYYY-MM-DD (UTC midnight),
        \* printed in the UTC time zone
        DateToString(tx) ==
            LET DigitVal(i) == CHOOSE n \in 0..9 : ToString(n) = CharAt(tx, i)
                y == DigitVal(1) * 1000 + DigitVal(2) * 100 + DigitVal(3) * 10 + DigitVal(4)
                m == DigitVal(6) * 10 + DigitVal(7)
                d == DigitVal(9) * 10 + DigitVal(10)
                DayNames == <<"Sun", "Mon", "Tue", "Wed", "Thu", "Fri", "Sat">>
                MonthNames == <<"Jan", "Feb", "Mar", "Apr", "May", "Jun",
                                "Jul", "Aug", "Sep", "Oct", "Nov", "Dec">>
                t == <<0, 3, 2, 5, 0, 3, 5, 1, 4, 6, 2, 4>>
                yy == IF m < 3 THEN y - 1 ELSE y
                \* the day of the week, 0 for Sunday
                DayOfWeek == (yy + (yy \div 4) - (yy \div 100) + (yy \div 400) + t[m] + d) % 7
            IN IF m \in 1..12 /\ d \in 1..31
               THEN DayNames[DayOfWeek + 1] \o " " \o MonthNames[m] \o " "
                    \o SubSeq(tx, 9, 10) \o " " \o SubSeq(tx, 1, 4)
                    \o " 00:00:00 GMT+0000 (Coordinated Universal Time)"
               ELSE "Invalid Date"
    IN  IF value.ty = "null" THEN "null"
        ELSE IF value.ty \in {"boolean", "number"} THEN value.tx
        ELSE IF value.ty = "date" THEN DateToString(value.tx)
        ELSE IF Includes(value.tx, ":") \/ Includes(value.tx, "#") \/ Includes(value.tx, "\n")
             THEN "\"" \o EscapeQuotes(value.tx) \o "\""
             ELSE value.tx

RECURSIVE JoinWith(_, _)
JoinWith(xs, sep) ==
    IF xs = <<>> THEN ""
    ELSE IF Len(xs) = 1 THEN xs[1]
    ELSE xs[1] \o sep \o JoinWith(Tail(xs), sep)

\* MarkdownUtils.stringifyMarkdown: `---\n${yaml}---\n\n${content}`
stringifyMarkdown(frontmatter, content) ==
    LET \* MarkdownUtils.stringifyYaml: one "key: value" line per entry
        stringifyYaml(obj) ==
            LET \* MarkdownUtils.stringifyYamlValue
                stringifyYamlValue(value) ==
                    IF value.ty = "array"
                    THEN IF value.items = <<>> THEN "[]"
                         ELSE "[" \o JoinWith([i \in 1..Len(value.items) |->
                                                   stringifyYamlScalar(value.items[i])], ", ") \o "]"
                    ELSE stringifyYamlScalar(value)
            IN  [i \in 1..Len(obj) |-> obj[i].k \o ": " \o stringifyYamlValue(obj[i].v)]
    IN  IF frontmatter = <<>> THEN content
        ELSE <<"---">> \o stringifyYaml(frontmatter) \o <<"---", "">> \o content

\* ------------------------------------------------------------------------
\* gray-matter (the parser behind MarkdownUtils.parseMarkdown) with js-yaml
\* ------------------------------------------------------------------------

\* \" inside a double-quoted YAML scalar
RECURSIVE UnescapeQuotes(_)
UnescapeQuotes(s) ==
    IF s = "" THEN ""
    ELSE IF StartsWith(s, "\\\"") THEN "\"" \o UnescapeQuotes(SubSeq(s, 3, Len(s)))
    ELSE CharAt(s, 1) \o UnescapeQuotes(SubSeq(s, 2, Len(s)))

\* js-yaml's resolution of a plain or quoted scalar (default safe schema)
yamlScalar(s) ==
    LET IsIsoDate(str) ==
            /\ Len(str) = 10
            /\ CharAt(str, 5) = "-" /\ CharAt(str, 8) = "-"
            /\ IsDigits(SubSeq(str, 1, 4)) /\ IsDigits(SubSeq(str, 6, 7)) /\ IsDigits(SubSeq(str, 9, 10))
    IN  IF Len(s) >= 2 /\ StartsWith(s, "\"") /\ EndsWith(s, "\"")
        THEN Scalar("string", UnescapeQuotes(SubSeq(s, 2, Len(s) - 1)))
        ELSE IF Len(s) >= 2 /\ StartsWith(s, "'") /\ EndsWith(s, "'")
        THEN Scalar("string", SubSeq(s, 2, Len(s) - 1))
        ELSE IF s \in {"", "~", "null", "Null", "NULL"} THEN Scalar("null", "null")
        ELSE IF s \in {"true", "True", "TRUE", "false", "False", "FALSE"}
        THEN Scalar("boolean", ToLowerCase(s))
        ELSE IF IsDigits(s) THEN Scalar("number", CanonicalNumber(s))
        ELSE IF IsIsoDate(s) THEN [ty |-> "date", tx |-> s, items |-> <<>>]
        ELSE Scalar("string", s)

IsYamlBlank(line) == Trim(line) = "" \/ StartsWith(Trim(line), "#")

\* "key: value" or "key:" at column 0
IsYamlEntry(line) ==
    /\ ~IsYamlBlank(line)
    /\ ~IsWhitespace(CharAt(line, 1))
    /\ (IndexOf(line, ": ") > 1 \/ (EndsWith(line, ":") /\ Len(line) > 1))

YamlEntryKey(line) ==
    IF IndexOf(line, ": ") > 1 THEN SubSeq(line, 1, IndexOf(line, ": ") - 1)
    ELSE SubSeq(line, 1, Len(line) - 1)

YamlEntryText(line) ==
    IF IndexOf(line, ": ") > 1 THEN Trim(SubSeq(line, IndexOf(line, ": ") + 2, Len(line)))
    ELSE ""

\* js-yaml raises YAMLException: a line that is no mapping entry next to
\* mapping entries, a plain value holding ": ", a duplicated key, or a flow
\* sequence left open
yamlThrows(block) ==
    LET IsQuoted(s) ==
            Len(s) >= 2 /\ \/ (StartsWith(s, "\"") /\ EndsWith(s, "\""))
                           \/ (StartsWith(s, "'") /\ EndsWith(s, "'"))
    IN  LET n == Len(block)
            entries == {i \in 1..n : IsYamlEntry(block[i])}
            others == {i \in 1..n : ~IsYamlBlank(block[i]) /\ ~IsYamlEntry(block[i])}
        IN \/ (entries # {} /\ others # {})
           \/ \E i \in entries :
                  /\ ~IsQuoted(YamlEntryText(block[i]))
                  /\ Includes(YamlEntryText(block[i]), ": ")
           \/ \E i, j \in entries : i # j /\ YamlEntryKey(block[i]) = YamlEntryKey(block[j])
           \/ \E i \in entries :
                  /\ StartsWith(YamlEntryText(block[i]), "[")
                  /\ ~EndsWith(YamlEntryText(block[i]), "]")

\* the mapping js-yaml loads from the lines of a block
RECURSIVE yamlLoadFrom(_, _)
yamlLoadFrom(result, block) ==
    LET \* a flow sequence [a, b] or a scalar
        yamlValue(s) ==
            IF StartsWith(s, "[") /\ EndsWith(s, "]")
            THEN LET inner == SubSeq(s, 2, Len(s) - 1)
                     parts == Split(inner, ",")
                 IN IF Trim(inner) = "" THEN ArrVal(<<>>)
                    ELSE ArrVal([i \in 1..Len(parts) |-> yamlScalar(Trim(parts[i]))])
            ELSE yamlScalar(s)
    IN  IF block = <<>> THEN result
        ELSE IF IsYamlEntry(Head(block))
             THEN yamlLoadFrom(Append(result, [k |-> YamlEntryKey(Head(block)),
                                               v |-> yamlValue(YamlEntryText(Head(block)))]),
                               Tail(block))
             ELSE yamlLoadFrom(result, Tail(block))

\* gray-matter: the text opens with '---' not followed by another '-'
HasOpenDelimiter(text) == StartsWith(text[1], "---") /\ CharAt(text[1], 4) # "-"

\* str.indexOf('\n---'): the first later line that starts with '---'
CloseLine(text) ==
    LET hits == {j \in 2..Len(text) : StartsWith(text[j], "---")}
    IN IF hits = {} THEN 0 ELSE CHOOSE j \in hits : \A h \in hits : j <= h

\* the raw block between the delimiters
MatterBlock(text) ==
    IF CloseLine(text) = 0 THEN SubSeq(text, 2, Len(text))
    ELSE SubSeq(text, 2, CloseLine(text) - 1)

grayMatter(text) ==
    LET yamlLoad(block) == yamlLoadFrom(<<>>, block)
    IN  LET \* file.content = str.slice(closeIndex + close.length), less one leading
            \* newline; '' when there is no closing delimiter
            grayMatterContent(t) ==
                LET j == CloseLine(t)
                    rest == SubSeq(t[j], 4, Len(t[j]))
                IN IF j = 0 THEN <<"">>
                   ELSE IF rest # "" THEN <<rest>> \o SubSeq(t, j + 1, Len(t))
                   ELSE IF j = Len(t) THEN <<"">>
                   ELSE SubSeq(t, j + 1, Len(t))
        IN  IF ~HasOpenDelimiter(text)
            THEN [frontmatter |-> <<>>, content |-> text]
            ELSE [frontmatter |-> yamlLoad(MatterBlock(text)), content |-> grayMatterContent(text)]

\* ------------------------------------------------------------------------
\* MarkdownUtils.manualParse: /^---\s*\n([\s\S]*?)\n---\s*\n/
\* ------------------------------------------------------------------------
IsBlankLine(line) == Trim(line) = ""

IsDelimiterLine(line) == StartsWith(line, "---") /\ TrimEnd(line) = "---"

\* where the greedy \s* after the opening delimiter first lets the group start
ManualFirstStart(text) ==
    LET solid == {i \in 2..Len(text) : ~IsBlankLine(text[i])}
    IN IF solid = {} THEN 0 ELSE CHOOSE i \in solid : \A j \in solid : i <= j

\* closing delimiters available to a group that starts at line s
ManualClosings(text, s) ==
    {b \in (s + 1)..(Len(text) - 1) : IsDelimiterLine(text[b])}

\* the group start the regex engine settles on (0: no match)
ManualStart(text) ==
    LET starts == {s \in 2..ManualFirstStart(text) : ManualClosings(text, s) # {}}
    IN IF ~IsDelimiterLine(text[1]) \/ ManualFirstStart(text) = 0 \/ starts = {}
       THEN 0
       ELSE CHOOSE s \in starts : \A t \in starts : s >= t

ManualClose(text) ==
    LET cs == ManualClosings(text, ManualStart(text))
    IN CHOOSE b \in cs : \A c \in cs : b <= c

\* MarkdownUtils.parseMarkdown
parseMarkdown(text) ==
    LET manualParse(src) ==
            LET parseYamlLike(lines) == parseYamlLikeFrom(<<>>, lines)
            IN  LET \* the src after the match: the trailing \s*\n swallows blank lines
                    ManualRest(t) ==
                        LET b == ManualClose(t)
                            solid == {i \in (b + 1)..Len(t) : ~IsBlankLine(t[i])}
                            c == IF solid = {} THEN Len(t) ELSE CHOOSE i \in solid : \A j \in solid : i <= j
                        IN SubSeq(t, c, Len(t))
                IN  IF ManualStart(src) = 0
                    THEN [frontmatter |-> <<>>, content |-> src]
                    ELSE [frontmatter |-> parseYamlLike(SubSeq(src, ManualStart(src), ManualClose(src) - 1)),
                          content |-> ManualRest(src)]
    IN  LET grayMatterThrows(src) == HasOpenDelimiter(src) /\ yamlThrows(MatterBlock(src))
        IN  IF grayMatterThrows(text) THEN manualParse(text) ELSE grayMatter(text)

\* ------------------------------------------------------------------------
\* The filesystem: files is a function from the paths of the existing files
\* to [text, created, modified]; dirs is the set of existing directories
\* ------------------------------------------------------------------------
Today == [y |-> 2026, m |-> 11, d |-> 4]

Exists(files, p) == p \in DOMAIN files

\* all proper prefixes of a path, the root <<>> excluded
Ancestors(p) == {SubSeq(p, 1, n) : n \in 1..(Len(p) - 1)}

\* the function files with path p bound to file f
WithFile(files, p, f) == [q \in (DOMAIN files) \cup {p} |-> IF q = p THEN f ELSE files[q]]

WithoutFile(files, p) == [q \in (DOMAIN files) \ {p} |-> files[q]]

\* stats.size: the byte length of the text (lines joined by '\n')
RECURSIVE ByteLength(_)
ByteLength(text) ==
    IF Len(text) = 1 THEN Len(text[1]) ELSE Len(text[1]) + 1 + ByteLength(Tail(text))

\* `${filePath}.backup.${Date.now()}` and `${filePath}.deleted.${Date.now()}`
SiblingPath(p, tag, now) ==
    Append(pathDirname(p), pathBasename(p) \o "." \o tag \o "." \o ToString(now))

\* ------------------------------------------------------------------------
\* glob('**/*.md', { cwd, ignore: ['node_modules/**', '.git/**', '.obsidian/**'] })
\* ------------------------------------------------------------------------
GlobMd(files, cwd, nc) ==
    LET GlobIgnore == {"node_modules", ".git", ".obsidian"}
        \* the case folding of the platform's glob (nocase)
        Fold(s) == IF nc THEN ToLowerCase(s) ELSE s
        \* '*.md' with dot: false
        MatchesStarMd(name) == ~StartsWith(name, ".") /\ EndsWith(Fold(name), ".md")
        \* '**' with dot: false never enters a directory whose name starts with '.'
        GlobMatches(rel) ==
            /\ \A i \in 1..(Len(rel) - 1) : ~StartsWith(rel[i], ".")
            /\ MatchesStarMd(rel[Len(rel)])
        \* an ignore pattern 'name/**' covers what lies below cwd/name
        GlobIgnored(rel) == \E g \in GlobIgnore : Fold(rel[1]) = Fold(g)
    IN {f \in DOMAIN files :
           /\ IsStrictlyInside(f, cwd)
           /\ GlobMatches(SubSeq(f, Len(cwd) + 1, Len(f)))
           /\ ~GlobIgnored(SubSeq(f, Len(cwd) + 1, Len(f)))}

\* the orders in which glob may return a set of paths
Orderings(S) ==
    {seq \in [1..Cardinality(S) -> S] : \A i, j \in 1..Cardinality(S) : i # j => seq[i] # seq[j]}

\* ------------------------------------------------------------------------
\* FileProcessor (src/unnamed/part_007), as functions of the filesystem
\* ------------------------------------------------------------------------
\* fs.readFile / fs.stat succeed
CanRead(files, bad, p) == Exists(files, p) /\ p \notin bad

\* FileProcessor.processFile: the File Record; parseMarkdown's content (the
\* body) replaces the raw content through the object spread
processFile(files, p) ==
    LET \* path.basename(p, ext): the suffix is removed when the name ends with it
        \* and is not equal to it
        pathBasenameExt(q, ext) ==
            LET b == pathBasename(q)
            IN IF EndsWith(b, ext) /\ b # ext THEN SubSeq(b, 1, Len(b) - Len(ext)) ELSE b
    IN  LET parsed == parseMarkdown(files[p].text)
        IN [path |-> p,
            name |-> pathBasenameExt(p, ".md"),
            extension |-> pathExtname(p),
            size |-> ByteLength(files[p].text),
            created |-> files[p].created,
            modified |-> files[p].modified,
            content |-> parsed.content,
            frontmatter |-> parsed.frontmatter]

\* fs.ensureDir(dir) fails when a file is in the way
CanEnsureDir(files, dir) == \A a \in Ancestors(dir) \cup {dir} : ~Exists(files, a)

\* FileProcessor.moveFile: ensureDir, then fs.move without overwrite
\* (moveFileOkOverwrite is the variant with fs.move(..., { overwrite: true }))
moveFileOkOverwrite(files, oldPath, newPath) ==
    /\ CanEnsureDir(files, pathDirname(newPath))
    /\ Exists(files, oldPath)

moveFileOk(files, oldPath, newPath) ==
    /\ CanEnsureDir(files, pathDirname(newPath))
    /\ Exists(files, oldPath)
    /\ ~Exists(files, newPath)

moveFileFiles(files, oldPath, newPath) ==
    WithFile(WithoutFile(files, oldPath), newPath, files[oldPath])

moveFileDirs(files, ds, newPath) ==
    LET EnsureDir(dir) == ds \cup Ancestors(dir) \cup {dir}
    IN  IF CanEnsureDir(files, pathDirname(newPath)) THEN EnsureDir(pathDirname(newPath)) ELSE ds

\* FileProcessor.updateFile: fs.copy to the backup path, then fs.writeFile
BackupPath(p, now) == SiblingPath(p, "backup", now)

updateFileBackupOk(files, bad, p) == CanRead(files, bad, p)

updateFileOk(files, bad, ro, p) == updateFileBackupOk(files, bad, p) /\ p \notin ro

\* updateFileFiles is the filesystem after updateFile(p, newContent)
\* (updateFileFilesWriteFirst is the variant that copies after writing)
updateFileFilesWriteFirst(files, bad, ro, p, newContent, now) ==
    LET written == IF updateFileOk(files, bad, ro, p)
                   THEN WithFile(files, p, [text |-> newContent, created |-> files[p].created,
                                            modified |-> Today])
                   ELSE files
    IN IF updateFileBackupOk(files, bad, p)
       THEN WithFile(written, BackupPath(p, now),
                     [text |-> written[p].text, created |-> Today, modified |-> Today])
       ELSE written

updateFileFiles(files, bad, ro, p, newContent, now) ==
    LET backedUp == IF updateFileBackupOk(files, bad, p)
                    THEN WithFile(files, BackupPath(p, now),
                                  [text |-> files[p].text, created |-> Today, modified |-> Today])
                    ELSE files
    IN IF updateFileOk(files, bad, ro, p)
       THEN WithFile(backedUp, p, [text |-> newContent, created |-> files[p].created,
                                   modified |-> Today])
       ELSE backedUp

\* FileProcessor.deleteFile(path, true): fs.move to the .deleted path
DeletedPath(p, now) == SiblingPath(p, "deleted", now)

deleteFileOk(files, ro, p, now) ==
    Exists(files, p) /\ ~Exists(files, DeletedPath(p, now))

\* ------------------------------------------------------------------------
\* FileOrganizer (src/src/tools/file-organizer.js): the strategies
\* ------------------------------------------------------------------------
Vault == <<"v">>

\* String(n).padStart(2, '0')
Pad2(n) == IF n < 10 THEN "0" \o ToString(n) ELSE ToString(n)

\* date.toISOString().split('T')[0]
IsoDate(date) == ToString(date.y) \o "-" \o Pad2(date.m) \o "-" \o Pad2(date.d)

\* fileInfo.frontmatter?.<key> is truthy
HasTruthy(fileInfo, key) ==
    LET \* JS truthiness of a frontmatter value
        Truthy(v) ==
            CASE v.ty = "string" -> v.tx # ""
              [] v.ty = "number" -> v.tx # "0"
              [] v.ty = "boolean" -> v.tx = "true"
              [] v.ty = "null" -> FALSE
              [] OTHER -> TRUE
    IN  HasKey(fileInfo.frontmatter, key) /\ Truthy(GetValue(fileInfo.frontmatter, key))

\* fileInfo.tags: processFile builds no tags field, so `fileInfo.tags || []`
\* is the empty list and `fileInfo.tags?.[0]` is undefined
RecordTags(fileInfo) == <<>>

\* content.includes(word) on the lower-cased body
ContentIncludes(fileInfo, word) ==
    \E i \in 1..Len(fileInfo.content) : Includes(ToLowerCase(fileInfo.content[i]), word)

\* FileOrganizer.determineFileType; headings and tags are undefined on a
\* File Record, which leaves the content tests
determineFileType(fileInfo) ==
    IF ContentIncludes(fileInfo, "todo") \/ ContentIncludes(fileInfo, "task")
       \/ ContentIncludes(fileInfo, "- [ ]")
    THEN "tasks"
    ELSE IF ContentIncludes(fileInfo, "daily note") \/ ContentIncludes(fileInfo, "journal")
    THEN "journal"
    ELSE "notes"

\* organizeByDate: the folder of one record
byDateFolder(fileInfo, dateType) ==
    LET date == IF dateType = "created" THEN fileInfo.created ELSE fileInfo.modified
    IN pathJoin(Vault, <<"organized", "by-date", ToString(date.y),
                         ToString(date.y) \o "-" \o Pad2(date.m)>>)

\* organizeByType: sanitizeFilename raises a TypeError on a non-string
byTypeThrows(fileInfo) ==
    HasTruthy(fileInfo, "type") /\ GetValue(fileInfo.frontmatter, "type").ty # "string"

\* String.prototype.replace(pattern, replacement) for a string pattern:
\* the first occurrence only
ReplaceFirst(s, pat, rep) ==
    LET i == IndexOf(s, pat)
    IN IF i = 0 THEN s
       ELSE SubSeq(s, 1, i - 1) \o rep \o SubSeq(s, i + Len(pat), Len(s))

\* FileOrganizer.generateNewFilename; "" stands for null
generateNewFilenameThrows(fileInfo, pattern) ==
    /\ pattern = "title"
    /\ HasTruthy(fileInfo, "title")
    /\ GetValue(fileInfo.frontmatter, "title").ty # "string"

generateNewFilename(fileInfo, pattern) ==
    CASE pattern = "title" ->
             IF HasTruthy(fileInfo, "title")
             THEN sanitizeFilename(GetValue(fileInfo.frontmatter, "title").tx)
             ELSE ""
      [] pattern = "heading" -> ""
      [] pattern = "date-prefix" -> IsoDate(fileInfo.created) \o "-" \o fileInfo.name
      [] pattern = "sanitize" -> sanitizeFilename(fileInfo.name)
      [] OTHER -> ""

\* the loop of renameFiles: one operation per record with a new name
RECURSIVE renameOperations(_, _)
renameOperations(fileInfos, pattern) ==
    IF fileInfos = <<>> THEN <<>>
    ELSE LET fileInfo == Head(fileInfos)
             newName == generateNewFilename(fileInfo, pattern)
         IN (IF newName # "" /\ newName # fileInfo.name
             THEN <<[from |-> fileInfo.path,
                     to |-> pathJoin(pathDirname(fileInfo.path), <<newName \o ".md">>),
                     folder |-> pathDirname(fileInfo.path)]>>
             ELSE <<>>)
            \o renameOperations(Tail(fileInfos), pattern)

OrganizeTypes == {"date-created", "date-modified", "tags", "type", "size", "rename", "custom"}

\* the folder a move strategy gives one record
strategyFolder(fileInfo, type, pattern) ==
    LET \* organizeByTags: the folder of one record
        byTagsFolder(rec) ==
            IF Len(RecordTags(rec)) = 0
            THEN pathJoin(Vault, <<"organized", "by-tags", "untagged">>)
            ELSE pathJoin(Vault, <<"organized", "by-tags", sanitizeFilename(RecordTags(rec)[1])>>)
        byTypeFolder(rec) ==
            LET fileType == IF HasTruthy(rec, "type")
                            THEN sanitizeFilename(GetValue(rec.frontmatter, "type").tx)
                            ELSE determineFileType(rec)
            IN pathJoin(Vault, <<"organized", "by-type", fileType>>)
        \* organizeBySize: the folder of one record
        bySizeFolder(rec) ==
            LET sizeCategory == IF rec.size < 1024 THEN "tiny"
                                ELSE IF rec.size < 10240 THEN "small"
                                ELSE IF rec.size < 102400 THEN "medium"
                                ELSE "large"
            IN pathJoin(Vault, <<"organized", "by-size", sizeCategory>>)
        \* FileOrganizer.generateCustomPath
        generateCustomPath(rec, pat, basePath) ==
            LET r1 == ReplaceFirst(pat, "{type}", sanitizeFilename(determineFileType(rec)))
                r2 == ReplaceFirst(r1, "{year}", sanitizeFilename(ToString(rec.created.y)))
                r3 == ReplaceFirst(r2, "{month}", sanitizeFilename(Pad2(rec.created.m)))
                r4 == ReplaceFirst(r3, "{day}", sanitizeFilename(Pad2(rec.created.d)))
                r5 == ReplaceFirst(r4, "{tags}",
                                   sanitizeFilename(IF Len(RecordTags(rec)) > 0
                                                    THEN RecordTags(rec)[1] ELSE "untagged"))
            IN pathJoin(basePath, <<"organized", "custom", r5>>)
    IN  CASE type = "date-created" -> byDateFolder(fileInfo, "created")
          [] type = "date-modified" -> byDateFolder(fileInfo, "modified")
          [] type = "tags" -> byTagsFolder(fileInfo)
          [] type = "type" -> byTypeFolder(fileInfo)
          [] type = "size" -> bySizeFolder(fileInfo)
          [] type = "custom" -> generateCustomPath(fileInfo, pattern, Vault)

\* the moveOperations list a move strategy builds from the records
moveOperations(fileInfos, type, pattern) ==
    LET MoveOp(fileInfo, newFolder) ==
            [from |-> fileInfo.path,
             to |-> pathJoin(newFolder, <<pathBasename(fileInfo.path)>>),
             folder |-> newFolder]
    IN  [i \in 1..Len(fileInfos) |-> MoveOp(fileInfos[i], strategyFolder(fileInfos[i], type, pattern))]

\* the strategy raises while it builds its operations
strategyThrows(fileInfos, type, pattern) ==
    \E i \in 1..Len(fileInfos) :
        \/ (type = "type" /\ byTypeThrows(fileInfos[i]))
        \/ (type = "rename" /\ generateNewFilenameThrows(fileInfos[i], pattern))

\* ------------------------------------------------------------------------
\* State
\* ------------------------------------------------------------------------
VARIABLES
    fs,           \* the files of the filesystem
    dirs,         \* the directories of the filesystem
    unreadable,   \* paths whose read/stat/copy fails (IOError)
    readonly,     \* paths whose write/delete fails (IOError)
    nocase,       \* the platform's glob matches case-insensitively
    clock,        \* Date.now()
    pc,           \* where the running tool is
    tool,         \* the tool entry point that runs
    option,       \* the operator's answers to the tool's prompts
    files,        \* the path list a listing returned
    scanIdx,      \* processFiles: position in the path list
    results,      \* processFiles: File Records
    scanErrors,   \* processFiles: errors
    vaultInfo,    \* VaultManager.analyzeDirectory: the vaultInfo last returned
    currentVault, \* VaultManager.currentVault: a vaultInfo, or NoVault for null
    todo,         \* cleanupOperations: the cleanup types still to run
    ops,          \* the batch of operations being applied
    idx,          \* position in the batch
    successCount, \* the batch's success counter
    errors,       \* the batch's collected failures
    progress,     \* the progress events emitted so far
    attempted,    \* history: the operations attempted, in order
    occupied,     \* history: attempts that found their destination occupied
    lastStep,     \* history: the last mutating call and the files before it
    configManager, \* ConfigManager: configPath, defaultConfig, config (loaded is
                   \* config !== null), and the nested objects config shares
                   \* with defaultConfig
    configFiles,   \* the configuration files on disk, by path: missing,
                   \* malformed, or valid with the value parsed from it
    recentVaults,  \* VaultManager.recentVaults
    historyFile,   \* config/vault-history.json: whether it exists, its recentVaults
    loadCall,      \* the loadVaultHistory call the constructor started
    historyCall    \* the setCurrentVaultWithHistory / addToHistory call in flight

envVars == <<unreadable, readonly, nocase>>

diskVars == <<fs, dirs>>

scanVars == <<files, scanIdx, results, scanErrors>>

batchVars == <<todo, ops, idx, successCount, errors>>

histVars == <<attempted, occupied, lastStep>>

vaultVars == <<vaultInfo, currentVault>>

managerVars == <<configManager, configFiles, recentVaults, historyFile, loadCall, historyCall>>

vars == <<fs, dirs, unreadable, readonly, nocase, clock, pc, tool, option, vaultInfo,
          currentVault,
          files, scanIdx, results, scanErrors, todo, ops, idx, successCount, errors,
          progress, attempted, occupied, lastStep, managerVars>>

\* the directories that the files of a filesystem imply
DirsOf(fileMap) == UNION {Ancestors(p) : p \in DOMAIN fileMap}

\* every filesystem with at most n files, paths from P and texts from T
Filesystems(P, T, n) ==
    LET MkFile(text, created) == [text |-> text, created |-> created, modified |-> created]
    IN  UNION {[S -> {MkFile(t, [y |-> 2024, m |-> 3, d |-> 1]) : t \in T}] :
                  S \in {X \in SUBSET P : Cardinality(X) <= n}}

\* null in the place of a vaultInfo: no descriptor returned or accepted yet,
\* or no vaultPath argument given
NoVault == [name |-> "", path |-> <<>>, isVault |-> FALSE, hasObsidianFolder |-> FALSE,
            markdownFiles |-> 0, totalFiles |-> 0]

\* ------------------------------------------------------------------------
\* ConfigManager (src/src/core/config-manager.js)
\* ------------------------------------------------------------------------
\* the object literal the constructor assigns to this.defaultConfig (three
\* of its keys: a string and two nested objects)
BuiltInDefaults ==
    [defaultVaultPath |-> "./vault", logging |-> [level |-> "info"],
     backup |-> [maxBackups |-> 10]]

ConfigPaths == {"config/settings.json", "custom.json"}

\* new ConfigManager()
NewConfigManager ==
    [configPath |-> "config/settings.json", defaultConfig |-> BuiltInDefaults,
     loaded |-> FALSE, config |-> BuiltInDefaults, shared |-> {}]

\* { ...this.defaultConfig }: a new top-level object whose nested objects are
\* the nested objects of defaultConfig themselves
SpreadDefaults(cm) ==
    [cm EXCEPT !.loaded = TRUE, !.config = cm.defaultConfig,
               !.shared = {"logging", "backup"}]

\* ConfigManager.saveConfig: the file at configPath after the call;
\* written = FALSE is the write that throws, which saveConfig catches
saveConfig(cm, cfiles, written) ==
    IF written THEN [cfiles EXCEPT ![cm.configPath] = [state |-> "valid", value |-> cm.config]]
    ELSE cfiles

\* ConfigManager.loadConfig: the manager and the files after the call
loadConfig(cm, cfiles, written) ==
    IF cfiles[cm.configPath].state = "missing"
    THEN [cm |-> SpreadDefaults(cm), files |-> saveConfig(SpreadDefaults(cm), cfiles, written)]
    ELSE IF cfiles[cm.configPath].state = "malformed"
    THEN [cm |-> SpreadDefaults(cm), files |-> cfiles]
    ELSE [cm |-> [cm EXCEPT !.loaded = TRUE, !.config = cfiles[cm.configPath].value,
                            !.shared = {}],
          files |-> cfiles]

\* ConfigManager.getValue(key) for a key given as its dot-separated parts
getValue(cm, cfiles, keys) ==
    LET loaded == IF ~cm.loaded THEN loadConfig(cm, cfiles, TRUE).cm.config
                  ELSE cm.config
    IN  IF Len(keys) = 1 THEN loaded[keys[1]] ELSE loaded[keys[1]][keys[2]]

InitCommon ==
    LET InitManagers ==
            /\ configManager = NewConfigManager
            /\ configFiles = [p \in ConfigPaths |-> [state |-> "missing", value |-> BuiltInDefaults]]
            /\ recentVaults = <<>>
            /\ historyFile = [exists |-> FALSE, recentVaults |-> <<>>, earlier |-> <<>>]
            /\ loadCall = [pc |-> "done", data |-> <<>>]
            /\ historyCall = [pc |-> "idle", path |-> <<>>, calls |-> 0]
    IN  LET NoStep == [kind |-> "none", ok |-> TRUE, backup |-> FALSE, from |-> <<>>, to |-> <<>>,
                       arg |-> <<>>, before |-> <<>>]
        IN  /\ clock = 1
            /\ vaultInfo = NoVault
            /\ currentVault = NoVault
            /\ pc = "ready"
            /\ files = <<>> /\ scanIdx = 1 /\ results = <<>> /\ scanErrors = <<>>
            /\ todo = <<>>
            /\ ops = <<>> /\ idx = 1 /\ successCount = 0 /\ errors = <<>>
            /\ progress = <<>>
            /\ attempted = <<>> /\ occupied = 0 /\ lastStep = NoStep
            /\ InitManagers

\* ------------------------------------------------------------------------
\* FileProcessor.processFiles, one path per step
\* ------------------------------------------------------------------------
\* the tool passes an onProgress callback (FileOrganizer.organize and
\* PropertyOrganizer.organize do)
HasOnProgress == tool \in OrganizeTypes \cup {"properties"}

\* one iteration of the loop of processFiles
\* (ProcessFilesStepDropsFailure is the variant whose catch pushes nothing)
ProcessFilesStepDropsFailure ==
    /\ pc = "scanning"
    /\ scanIdx <= Len(files)
    /\ IF CanRead(fs, unreadable, files[scanIdx])
       THEN /\ results' = Append(results, processFile(fs, files[scanIdx]))
            /\ progress' = IF HasOnProgress
                           THEN Append(progress, [current |-> Len(results) + 1,
                                                  total |-> Len(files)])
                           ELSE progress
       ELSE /\ results' = results
            /\ progress' = progress
    /\ scanErrors' = scanErrors
    /\ scanIdx' = scanIdx + 1
    /\ UNCHANGED <<diskVars, envVars, managerVars, vaultVars, clock, pc, tool, option, files, batchVars,
                   histVars>>

ProcessFilesStep ==
    /\ pc = "scanning"
    /\ scanIdx <= Len(files)
    /\ IF CanRead(fs, unreadable, files[scanIdx])
       THEN /\ results' = Append(results, processFile(fs, files[scanIdx]))
            /\ scanErrors' = scanErrors
            /\ progress' = IF HasOnProgress
                           THEN Append(progress, [current |-> Len(results) + 1,
                                                  total |-> Len(files)])
                           ELSE progress
       ELSE /\ scanErrors' = Append(scanErrors, [path |-> files[scanIdx]])
            /\ results' = results
            /\ progress' = progress
    /\ scanIdx' = scanIdx + 1
    /\ UNCHANGED <<diskVars, envVars, managerVars, vaultVars, clock, pc, tool, option, files, batchVars, histVars>>

ProcessFilesReturn ==
    /\ pc = "scanning"
    /\ scanIdx > Len(files)
    /\ pc' = "scanned"
    /\ UNCHANGED <<diskVars, envVars, managerVars, vaultVars, clock, tool, option, scanVars, batchVars,
                   progress, histVars>>

\* ------------------------------------------------------------------------
\* FileOrganizer.organize
\* ------------------------------------------------------------------------
\* getAllMarkdownFiles(vaultPath), then processFiles starts
OrganizeList ==
    /\ pc = "ready"
    /\ tool \in OrganizeTypes
    /\ \E listing \in Orderings(GlobMd(fs, Vault, nocase)) : files' = listing
    /\ pc' = "scanning"
    /\ scanIdx' = 1 /\ results' = <<>> /\ scanErrors' = <<>>
    /\ UNCHANGED <<diskVars, envVars, managerVars, vaultVars, clock, tool, option, batchVars, progress, histVars>>

\* organizeByDate / organizeByTags / organizeByType / organizeBySize build
\* their operations and call executeMoveOperations, which shows the preview
OrganizeMove ==
    /\ pc = "scanned"
    /\ tool \in {"date-created", "date-modified", "tags", "type", "size"}
    /\ IF strategyThrows(results, tool, "")
       THEN pc' = "failed" /\ ops' = ops
       ELSE pc' = "preview" /\ ops' = moveOperations(results, tool, "")
    /\ UNCHANGED <<diskVars, envVars, managerVars, vaultVars, clock, tool, option, scanVars, todo, idx,
                   successCount, errors, progress, histVars>>

\* customOrganization: the operator enters the folder pattern
CustomOrganization ==
    LET CustomPatterns == {"{type}/{year}/{month}", "../..", "{tags}/."}
    IN  /\ pc = "scanned"
        /\ tool = "custom"
        /\ \E pattern \in CustomPatterns :
               /\ option' = pattern
               /\ ops' = moveOperations(results, "custom", pattern)
        /\ pc' = "preview"
        /\ UNCHANGED <<diskVars, envVars, managerVars, vaultVars, clock, tool, scanVars, todo, idx, successCount,
                       errors, progress, histVars>>

\* renameFiles: the operator picks the rename pattern
RenameFiles ==
    LET RenamePatterns == {"title", "heading", "date-prefix", "sanitize", "custom"}
    IN  /\ pc = "scanned"
        /\ tool = "rename"
        /\ \E pattern \in RenamePatterns :
               /\ option' = pattern
               /\ IF strategyThrows(results, "rename", pattern)
                  THEN pc' = "failed" /\ ops' = ops
                  ELSE pc' = "preview" /\ ops' = renameOperations(results, pattern)
        /\ UNCHANGED <<diskVars, envVars, managerVars, vaultVars, clock, tool, scanVars, todo, idx, successCount,
                       errors, progress, histVars>>

\* showMovePreview / showRenamePreview: the operator's confirmation
ShowPreview ==
    /\ pc = "preview"
    /\ \E proceed \in BOOLEAN :
           pc' = IF proceed THEN "moving" ELSE "cancelled"
    /\ idx' = 1 /\ successCount' = 0 /\ errors' = <<>>
    /\ UNCHANGED <<diskVars, envVars, managerVars, vaultVars, clock, tool, option, scanVars, todo, ops, progress,
                   histVars>>

\* one iteration of the loop of executeMoveOperations / executeRenameOperations
\* (MoveStepAbortOnError is the variant with the try/catch around the loop)
MoveStepAbortOnError(kind) ==
    LET operation == ops[idx]
        ok == moveFileOk(fs, operation.from, operation.to)
    IN /\ attempted' = Append(attempted, idx)
       /\ occupied' = IF Exists(fs, operation.to) THEN occupied + 1 ELSE occupied
       /\ lastStep' = [kind |-> kind, ok |-> ok, backup |-> FALSE, from |-> operation.from,
                       to |-> operation.to, arg |-> <<>>, before |-> fs]
       /\ dirs' = moveFileDirs(fs, dirs, operation.to)
       /\ IF ok
          THEN /\ fs' = moveFileFiles(fs, operation.from, operation.to)
               /\ successCount' = successCount + 1
               /\ errors' = errors
               /\ progress' = Append(progress, [current |-> successCount + 1,
                                                total |-> Len(ops)])
               /\ idx' = idx + 1
          ELSE /\ fs' = fs
               /\ successCount' = successCount
               /\ errors' = Append(errors, [operation |-> operation])
               /\ progress' = progress
               /\ idx' = Len(ops) + 1

MoveStep(kind) ==
    LET operation == ops[idx]
        ok == moveFileOk(fs, operation.from, operation.to)
    IN /\ attempted' = Append(attempted, idx)
       /\ occupied' = IF Exists(fs, operation.to) THEN occupied + 1 ELSE occupied
       /\ lastStep' = [kind |-> kind, ok |-> ok, backup |-> FALSE, from |-> operation.from,
                       to |-> operation.to, arg |-> <<>>, before |-> fs]
       /\ dirs' = moveFileDirs(fs, dirs, operation.to)
       /\ IF ok
          THEN /\ fs' = moveFileFiles(fs, operation.from, operation.to)
               /\ successCount' = successCount + 1
               /\ errors' = errors
               /\ progress' = Append(progress, [current |-> successCount + 1,
                                                total |-> Len(ops)])
          ELSE /\ fs' = fs
               /\ successCount' = successCount
               /\ errors' = Append(errors, [operation |-> operation])
               /\ progress' = progress
       /\ idx' = idx + 1

\* the loop entered while the preview question is still unanswered
ExecuteMoveStepBeforeAnswer ==
    /\ pc \in {"preview", "moving"}
    /\ tool # "rename"
    /\ idx <= Len(ops)
    /\ MoveStep("move")
    /\ UNCHANGED <<envVars, managerVars, vaultVars, clock, pc, tool, option, scanVars, todo, ops>>

ExecuteMoveStep ==
    /\ pc = "moving"
    /\ tool # "rename"
    /\ idx <= Len(ops)
    /\ MoveStep("move")
    /\ UNCHANGED <<envVars, managerVars, vaultVars, clock, pc, tool, option, scanVars, todo, ops>>

ExecuteRenameStep ==
    /\ pc = "moving"
    /\ tool = "rename"
    /\ idx <= Len(ops)
    /\ MoveStep("rename")
    /\ UNCHANGED <<envVars, managerVars, vaultVars, clock, pc, tool, option, scanVars, todo, ops>>

\* the loop is over: the summary is logged and organize returns
ExecuteDone ==
    /\ pc = "moving"
    /\ idx > Len(ops)
    /\ pc' = "done"
    /\ UNCHANGED <<diskVars, envVars, managerVars, vaultVars, clock, tool, option, scanVars, batchVars,
                   progress, histVars>>

InitOrganize ==
    LET \* the vaults FileOrganizer.organize is run on
        OrganizePaths ==
            {<<"v", "a.md">>, <<"v", "sub", "a.md">>, <<"v", "b c.md">>,
             <<"v", "organized", "by-type", "notes", "a.md">>}
        OrganizeTexts ==
            {<<"note">>,
             <<"---", "type: ..", "---", "todo">>,
             <<"---", "title: b c", "type: 7", "tags: [work, home]", "---", "x">>}
    IN  /\ fs \in Filesystems(OrganizePaths, OrganizeTexts, MaxFiles)
        /\ dirs = DirsOf(fs) \cup {Vault}
        /\ unreadable = {} /\ readonly = {} /\ nocase = FALSE
        /\ tool \in OrganizeTypes
        /\ option = ""
        /\ InitCommon

NextOrganize ==
    \/ OrganizeList
    \/ ProcessFilesStep
    \/ ProcessFilesReturn
    \/ OrganizeMove
    \/ CustomOrganization
    \/ RenameFiles
    \/ ShowPreview
    \/ ExecuteMoveStep
    \/ ExecuteRenameStep
    \/ ExecuteDone

SpecOrganize == InitOrganize /\ [][NextOrganize]_vars

\* ------------------------------------------------------------------------
\* BatchProcessor (src/src/tools/batch-processor.js)
\* ------------------------------------------------------------------------

\* removeEmptyFiles: fileInfos.filter(...)
emptyFiles(fileInfos) ==
    LET \* !file.content || file.content.trim().length === 0
        IsEmptyContent(content) == \A i \in 1..Len(content) : Trim(content[i]) = ""
    IN  SelectSeq([i \in 1..Len(fileInfos) |-> [file |-> fileInfos[i].path,
                                                empty |-> IsEmptyContent(fileInfos[i].content)]],
                  LAMBDA e : e.empty)

\* removeTrailingWhitespace: the filesToUpdate list
whitespaceUpdates(fileInfos) ==
    LET \* removeTrailingWhitespace: lines.map(line => line.trimEnd())
        cleanedLines(content) == [i \in 1..Len(content) |-> TrimEnd(content[i])]
    IN  SelectSeq([i \in 1..Len(fileInfos) |-> [file |-> fileInfos[i].path,
                                                old |-> fileInfos[i].content,
                                                newContent |-> cleanedLines(fileInfos[i].content)]],
                  LAMBDA e : e.newContent # e.old)

\* datePropertyUpdates: the filesToUpdate list
dateUpdates(fileInfos, dateOperation, now) ==
    LET dateShouldUpdate(fileInfo, dateOp) ==
            CASE dateOp = "add-created" -> ~HasTruthy(fileInfo, "created")
              [] dateOp = "add-modified" -> ~HasTruthy(fileInfo, "modified")
              [] OTHER -> TRUE
        \* datePropertyUpdates: the switch on dateOperation for one record
        dateFrontmatter(fileInfo, dateOp, at) ==
            LET \* new Date().toISOString()
                IsoTimestamp == IsoDate(Today) \o "T00:00:0" \o ToString(at) \o ".000Z"
            IN  CASE dateOp = "add-created" ->
                         IF ~HasTruthy(fileInfo, "created")
                         THEN SetValue(fileInfo.frontmatter, "created", Scalar("string", IsoDate(fileInfo.created)))
                         ELSE fileInfo.frontmatter
                  [] dateOp = "add-modified" ->
                         IF ~HasTruthy(fileInfo, "modified")
                         THEN SetValue(fileInfo.frontmatter, "modified", Scalar("string", IsoDate(fileInfo.modified)))
                         ELSE fileInfo.frontmatter
                  [] OTHER -> SetValue(fileInfo.frontmatter, "updated", Scalar("string", IsoTimestamp))
    IN  SelectSeq([i \in 1..Len(fileInfos) |->
                       [file |-> fileInfos[i].path,
                        should |-> dateShouldUpdate(fileInfos[i], dateOperation),
                        newFrontmatter |-> dateFrontmatter(fileInfos[i], dateOperation, now)]],
                  LAMBDA e : e.should)

\* cleanupOperations: the checkbox prompt, getAllMarkdownFiles, processFiles starts
CleanupOperations ==
    LET \* the checkbox answers of cleanupOperations, in the order of the choices;
        \* 'broken-links' stands for the choices performCleanupOperation does not know
        CleanupSelections ==
            {<<"empty-files">>, <<"whitespace">>, <<"broken-links">>,
             <<"empty-files", "whitespace">>, <<"empty-files", "broken-links", "whitespace">>}
    IN  /\ pc = "ready"
        /\ tool = "cleanup"
        /\ \E selection \in CleanupSelections : todo' = selection
        /\ \E listing \in Orderings(GlobMd(fs, Vault, nocase)) : files' = listing
        /\ pc' = "scanning"
        /\ UNCHANGED <<diskVars, envVars, managerVars, vaultVars, clock, tool, option, scanIdx, results, scanErrors,
                       ops, idx, successCount, errors, progress, histVars>>

\* performCleanupOperation('empty-files') up to the confirmation prompt
RemoveEmptyFiles ==
    /\ pc = "scanned"
    /\ tool = "cleanup"
    /\ todo # <<>> /\ Head(todo) = "empty-files"
    /\ IF emptyFiles(results) = <<>>
       THEN /\ todo' = Tail(todo)
            /\ UNCHANGED <<pc, ops, idx>>
       ELSE /\ ops' = emptyFiles(results)
            /\ idx' = 1
            /\ pc' = "confirm"
            /\ todo' = todo
    /\ UNCHANGED <<diskVars, envVars, managerVars, vaultVars, clock, tool, option, scanVars, successCount, errors,
                   progress, histVars>>

\* performCleanupOperation('whitespace') up to the confirmation prompt
RemoveTrailingWhitespace ==
    /\ pc = "scanned"
    /\ tool = "cleanup"
    /\ todo # <<>> /\ Head(todo) = "whitespace"
    /\ IF whitespaceUpdates(results) = <<>>
       THEN /\ todo' = Tail(todo)
            /\ UNCHANGED <<pc, ops, idx>>
       ELSE /\ ops' = whitespaceUpdates(results)
            /\ idx' = 1
            /\ pc' = "confirm"
            /\ todo' = todo
    /\ UNCHANGED <<diskVars, envVars, managerVars, vaultVars, clock, tool, option, scanVars, successCount, errors,
                   progress, histVars>>

\* performCleanupOperation: the default branch only warns
CleanupUnknown ==
    /\ pc = "scanned"
    /\ tool = "cleanup"
    /\ todo # <<>> /\ Head(todo) \notin {"empty-files", "whitespace"}
    /\ todo' = Tail(todo)
    /\ UNCHANGED <<diskVars, envVars, managerVars, vaultVars, clock, pc, tool, option, scanVars, ops, idx,
                   successCount, errors, progress, histVars>>

\* cleanupOperations returns after the last cleanup type
CleanupReturn ==
    /\ pc = "scanned"
    /\ tool = "cleanup"
    /\ todo = <<>>
    /\ pc' = "done"
    /\ UNCHANGED <<diskVars, envVars, managerVars, vaultVars, clock, tool, option, scanVars, batchVars, progress,
                   histVars>>

\* confirmBatchOperation: the answer of the confirm prompt
ConfirmBatchOperation ==
    /\ pc = "confirm"
    /\ tool \in {"cleanup", "date-updates"}
    /\ \E proceed \in BOOLEAN :
         IF proceed
         THEN pc' = "applying" /\ todo' = todo
         ELSE IF tool = "cleanup"
              THEN pc' = "scanned" /\ todo' = Tail(todo)
              ELSE pc' = "done" /\ todo' = todo
    /\ UNCHANGED <<diskVars, envVars, managerVars, vaultVars, clock, tool, option, scanVars, ops, idx, successCount,
                   errors, progress, histVars>>

\* Date.now() advances between two calls
Tick ==
    /\ pc \in {"confirm", "applying"}
    /\ tool \in {"cleanup", "date-updates"}
    /\ clock < MaxClock
    /\ clock' = clock + 1
    /\ UNCHANGED <<diskVars, envVars, managerVars, vaultVars, pc, tool, option, scanVars, batchVars, progress,
                   histVars>>

\* removeEmptyFiles: one iteration of the deleteFile loop; the loop has no
\* try/catch, a rejection leaves the loop and reaches BatchProcessor.process
RemoveEmptyFilesStep ==
    LET deleteFileFiles(fileMap, ro, p, now) ==
            IF deleteFileOk(fileMap, ro, p, now)
            THEN WithFile(WithoutFile(fileMap, p), DeletedPath(p, now), fileMap[p])
            ELSE fileMap
    IN  /\ pc = "applying"
        /\ tool = "cleanup" /\ Head(todo) = "empty-files"
        /\ idx <= Len(ops)
        /\ LET p == ops[idx].file
               ok == deleteFileOk(fs, readonly, p, clock)
           IN /\ fs' = deleteFileFiles(fs, readonly, p, clock)
              /\ pc' = IF ok THEN "applying" ELSE "failed"
              /\ idx' = idx + 1
              /\ attempted' = Append(attempted, idx)
              /\ lastStep' = [kind |-> "delete", ok |-> ok, backup |-> ok, from |-> p,
                              to |-> DeletedPath(p, clock), arg |-> <<>>, before |-> fs]
        /\ UNCHANGED <<dirs, envVars, managerVars, vaultVars, clock, tool, option, scanVars, todo, ops, successCount,
                       errors, progress, occupied>>

\* removeTrailingWhitespace: one iteration of the updateFile loop (no try/catch)
RemoveTrailingWhitespaceStep ==
    /\ pc = "applying"
    /\ tool = "cleanup" /\ Head(todo) = "whitespace"
    /\ idx <= Len(ops)
    /\ LET p == ops[idx].file
           ok == updateFileOk(fs, unreadable, readonly, p)
       IN /\ fs' = updateFileFiles(fs, unreadable, readonly, p, ops[idx].newContent, clock)
          /\ pc' = IF ok THEN "applying" ELSE "failed"
          /\ idx' = idx + 1
          /\ attempted' = Append(attempted, idx)
          /\ lastStep' = [kind |-> "update", ok |-> ok,
                          backup |-> updateFileBackupOk(fs, unreadable, p), from |-> p,
                          to |-> BackupPath(p, clock), arg |-> <<>>, before |-> fs]
    /\ UNCHANGED <<dirs, envVars, managerVars, vaultVars, clock, tool, option, scanVars, todo, ops, successCount,
                   errors, progress, occupied>>

\* the cleanup loop ran to its end: logger.success, the next cleanup type
CleanupStepDone ==
    /\ pc = "applying"
    /\ tool = "cleanup"
    /\ idx > Len(ops)
    /\ todo' = Tail(todo)
    /\ pc' = "scanned"
    /\ UNCHANGED <<diskVars, envVars, managerVars, vaultVars, clock, tool, option, scanVars, ops, idx, successCount,
                   errors, progress, histVars>>

\* datePropertyUpdates: getAllMarkdownFiles, processFiles starts
DatePropertyUpdates ==
    /\ pc = "ready"
    /\ tool = "date-updates"
    /\ \E listing \in Orderings(GlobMd(fs, Vault, nocase)) : files' = listing
    /\ pc' = "scanning"
    /\ UNCHANGED <<diskVars, envVars, managerVars, vaultVars, clock, tool, option, scanIdx, results, scanErrors,
                   batchVars, progress, histVars>>

\* datePropertyUpdates: the dateOperation prompt and the filesToUpdate list
DatePropertyPlan ==
    LET DateOperations == {"add-created", "add-modified", "add-timestamp"}
    IN  /\ pc = "scanned"
        /\ tool = "date-updates"
        /\ \E dateOperation \in DateOperations :
             /\ option' = dateOperation
             /\ ops' = dateUpdates(results, dateOperation, clock)
             /\ pc' = IF dateUpdates(results, dateOperation, clock) = <<>> THEN "done" ELSE "confirm"
        /\ idx' = 1
        /\ UNCHANGED <<diskVars, envVars, managerVars, vaultVars, clock, tool, scanVars, todo, successCount, errors,
                       progress, histVars>>

\* applyFrontmatterUpdates, and the apply loops of PropertyOrganizer, which
\* are the same loop: one iteration; the catch only logs the failure
ApplyFrontmatterStep ==
    LET \* FileProcessor.updateFileFrontmatter: read, parse, merge, stringify, updateFile
        updateFileFrontmatterOk(fileMap, bad, ro, p) == CanRead(fileMap, bad, p) /\ p \notin ro
        updateFileFrontmatterFiles(fileMap, bad, ro, p, newFrontmatter, now) ==
            LET parsed == parseMarkdown(fileMap[p].text)
                updatedContent == stringifyMarkdown(SpreadMerge(parsed.frontmatter, newFrontmatter),
                                                    parsed.content)
            IN IF CanRead(fileMap, bad, p)
               THEN updateFileFiles(fileMap, bad, ro, p, updatedContent, now)
               ELSE fileMap
    IN  /\ pc = "applying"
        /\ tool \in {"date-updates", "properties"}
        /\ idx <= Len(ops)
        /\ LET p == ops[idx].file
               ok == updateFileFrontmatterOk(fs, unreadable, readonly, p)
           IN /\ fs' = updateFileFrontmatterFiles(fs, unreadable, readonly, p,
                                                  ops[idx].newFrontmatter, clock)
              /\ successCount' = IF ok THEN successCount + 1 ELSE successCount
              /\ progress' = IF ok
                             THEN Append(progress, [current |-> successCount + 1,
                                                    total |-> Len(ops)])
                             ELSE progress
              /\ idx' = idx + 1
              /\ attempted' = Append(attempted, idx)
              /\ lastStep' = [kind |-> "frontmatter", ok |-> ok,
                              backup |-> updateFileBackupOk(fs, unreadable, p), from |-> p,
                              to |-> BackupPath(p, clock), arg |-> ops[idx].newFrontmatter,
                              before |-> fs]
        /\ UNCHANGED <<dirs, envVars, managerVars, vaultVars, clock, pc, tool, option, scanVars, todo, ops, errors,
                       occupied>>

ApplyFrontmatterDone ==
    /\ pc = "applying"
    /\ tool = "date-updates"
    /\ idx > Len(ops)
    /\ pc' = "done"
    /\ UNCHANGED <<diskVars, envVars, managerVars, vaultVars, clock, tool, option, scanVars, batchVars, progress,
                   histVars>>

InitBatch ==
    LET \* the vaults the batch operations are run on
        BatchPaths == {<<"v", "a.md">>, <<"v", "b.md">>}
        BatchTexts ==
            {<<"clean">>,
             <<"x  ", "y">>,
             <<"  ">>,
             <<"---", "title: A", "---", "Body  ">>,
             <<"---", "created: 2020-01-02", "---">>}
        BatchTools == {"cleanup", "date-updates"}
    IN  /\ fs \in Filesystems(BatchPaths, BatchTexts, MaxFiles)
        /\ dirs = DirsOf(fs) \cup {Vault}
        /\ unreadable = {}
        /\ readonly \in {R \in SUBSET (DOMAIN fs) : Cardinality(R) <= 1}
        /\ nocase = FALSE
        /\ tool \in BatchTools
        /\ option = ""
        /\ InitCommon

NextBatch ==
    \/ CleanupOperations
    \/ DatePropertyUpdates
    \/ ProcessFilesStep
    \/ ProcessFilesReturn
    \/ RemoveEmptyFiles
    \/ RemoveTrailingWhitespace
    \/ CleanupUnknown
    \/ CleanupReturn
    \/ ConfirmBatchOperation
    \/ Tick
    \/ RemoveEmptyFilesStep
    \/ RemoveTrailingWhitespaceStep
    \/ CleanupStepDone
    \/ DatePropertyPlan
    \/ ApplyFrontmatterStep
    \/ ApplyFrontmatterDone

SpecBatch == InitBatch /\ [][NextBatch]_vars

\* ------------------------------------------------------------------------
\* VaultManager (src/src/core/vault-manager.js) and direct processFiles calls
\* ------------------------------------------------------------------------
ScanTools == {"analyze", "list", "tools", "process"}

\* VaultManager.analyzeDirectory; fault is the call that rejects inside the
\* try block: "stat" (fs.stat), "glob" (the markdown enumeration) or "none".
\* The catch returns vaultInfo as it stands when the rejection happens.
analyzeDirectory(fileMap, ds, nc, dirPath, fault) ==
    LET \* fs.pathExists
        PathExists(p) == Exists(fileMap, p) \/ p \in ds
    IN  LET blank == [name |-> pathBasename(dirPath), path |-> dirPath, isVault |-> FALSE,
                      hasObsidianFolder |-> FALSE, markdownFiles |-> 0, totalFiles |-> 0]
            hasObsidian == PathExists(Append(dirPath, ".obsidian"))
            count == Cardinality(GlobMd(fileMap, dirPath, nc))
        IN IF dirPath \notin ds \/ fault = "stat"
           THEN blank
           ELSE IF fault = "glob"
           THEN [blank EXCEPT !.hasObsidianFolder = hasObsidian]
           ELSE [blank EXCEPT !.hasObsidianFolder = hasObsidian,
                              !.markdownFiles = count,
                              !.totalFiles = count,
                              !.isVault = hasObsidian \/ count > 0]

\* the directories analyzeDirectory is called with: a vault, a folder of it,
\* a file and a path that does not exist
ScanDirs == {Vault, <<"v", "sub">>, <<"v", "a.md">>, <<"w">>}

\* the calls of analyzeDirectory's try block that may reject
AnalyzeFaults == {"none", "stat", "glob"}

AnalyzeDirectory ==
    /\ pc = "ready"
    /\ tool = "analyze"
    /\ \E dirPath \in ScanDirs, fault \in AnalyzeFaults :
         /\ vaultInfo' = analyzeDirectory(fs, dirs, nocase, dirPath, fault)
         /\ lastStep' = [kind |-> "analyzeDirectory", ok |-> TRUE, backup |-> FALSE,
                         from |-> dirPath, to |-> <<>>, arg |-> <<fault>>, before |-> fs]
    /\ pc' = "done"
    /\ UNCHANGED <<diskVars, envVars, managerVars, currentVault, clock, tool, option, scanVars, batchVars,
                   progress, attempted, occupied>>

\* setCurrentVault storing the descriptor whatever its isVault is
SetCurrentVaultAlways ==
    /\ pc = "ready"
    /\ tool = "list"
    /\ \E vaultPath \in ScanDirs, fault \in AnalyzeFaults :
         LET info == analyzeDirectory(fs, dirs, nocase, vaultPath, fault)
         IN /\ vaultInfo' = info
            /\ currentVault' = info
            /\ lastStep' = [kind |-> "setCurrentVault", ok |-> info.isVault, backup |-> FALSE,
                            from |-> vaultPath, to |-> <<>>, arg |-> <<fault>>, before |-> fs]
    /\ UNCHANGED <<diskVars, envVars, managerVars, clock, pc, tool, option, scanVars, batchVars,
                   progress, attempted, occupied>>

\* VaultManager.setCurrentVault(vaultPath); lastStep.ok is the value returned
SetCurrentVault ==
    /\ pc = "ready"
    /\ tool = "list"
    /\ \E vaultPath \in ScanDirs, fault \in AnalyzeFaults :
         LET info == analyzeDirectory(fs, dirs, nocase, vaultPath, fault)
         IN /\ vaultInfo' = info
            /\ currentVault' = IF info.isVault THEN info ELSE currentVault
            /\ lastStep' = [kind |-> "setCurrentVault", ok |-> info.isVault, backup |-> FALSE,
                            from |-> vaultPath, to |-> <<>>, arg |-> <<fault>>, before |-> fs]
    /\ UNCHANGED <<diskVars, envVars, managerVars, clock, pc, tool, option, scanVars, batchVars,
                   progress, attempted, occupied>>

\* VaultManager.getMarkdownFiles(vaultPath = null), its result handed to
\* processFiles; <<>> is the omitted argument. analyzeVault starts with the
\* same test and the same call.
GetMarkdownFiles ==
    /\ pc = "ready"
    /\ tool = "list"
    /\ \E vaultPath \in {<<>>, Vault} :
         LET targetPath == IF vaultPath # <<>> THEN vaultPath ELSE currentVault.path
         IN /\ IF targetPath = <<>>
               THEN pc' = "failed" /\ files' = files
               ELSE /\ pc' = "scanning"
                    /\ \E listing \in Orderings(GlobMd(fs, targetPath, nocase)) : files' = listing
            /\ lastStep' = [kind |-> "getMarkdownFiles", ok |-> targetPath # <<>>,
                            backup |-> FALSE, from |-> vaultPath, to |-> targetPath,
                            arg |-> <<>>, before |-> fs]
    /\ UNCHANGED <<diskVars, envVars, managerVars, vaultVars, clock, tool, option, scanIdx, results,
                   scanErrors, batchVars, progress, attempted, occupied>>

\* getAllMarkdownFiles(vaultPath) of FileOrganizer.organize,
\* PropertyOrganizer.organize and the BatchProcessor operations, its result
\* handed to processFiles; with vaultPath undefined glob's cwd option is
\* undefined and glob lists process.cwd()
ToolGetAllMarkdownFiles ==
    /\ pc = "ready"
    /\ tool = "tools"
    /\ \E vaultPath \in {<<>>, Vault}, processCwd \in dirs :
         LET cwd == IF vaultPath # <<>> THEN vaultPath ELSE processCwd
         IN /\ \E listing \in Orderings(GlobMd(fs, cwd, nocase)) : files' = listing
            /\ lastStep' = [kind |-> "getAllMarkdownFiles", ok |-> TRUE,
                            backup |-> FALSE, from |-> vaultPath, to |-> cwd,
                            arg |-> <<>>, before |-> fs]
    /\ pc' = "scanning"
    /\ UNCHANGED <<diskVars, envVars, managerVars, vaultVars, clock, tool, option, scanIdx, results,
                   scanErrors, batchVars, progress, attempted, occupied>>

\* FileProcessor.processFiles(filePaths) on any list of paths
ProcessFilesCall ==
    LET \* a path no file is at
        MissingPath == <<"v", "missing.md">>
    IN  /\ pc = "ready"
        /\ tool = "process"
        /\ \E n \in 0..MaxFiles :
             \E filePaths \in [1..n -> (DOMAIN fs) \cup {MissingPath}] : files' = filePaths
        /\ pc' = "scanning"
        /\ UNCHANGED <<diskVars, envVars, managerVars, vaultVars, clock, tool, option, scanIdx, results,
                       scanErrors, batchVars, progress, histVars>>

InitScan ==
    LET \* the directory trees the listings are run on
        ScanPaths ==
            {<<"v", "a.md">>, <<"v", "x.markdown">>, <<"v", "X.MD">>,
             <<"v", ".obsidian", "w.md">>, <<"v", "node_modules", "q.md">>,
             <<"v", "sub", "node_modules", "r.md">>, <<"v", "sub", ".git", "g.md">>,
             <<"v", "organized", "by-type", "notes", "a.md">>}
        ScanTexts == {<<"---", "title: A", "---", "x">>}
    IN  /\ fs \in Filesystems(ScanPaths, ScanTexts, MaxFiles)
        /\ \E extra \in SUBSET {<<"v", ".obsidian">>} : dirs = DirsOf(fs) \cup {Vault} \cup extra
        /\ tool \in ScanTools
        \* read failures where the files are read by a tool or handed over as
        \* a list, both kinds of filesystem where a directory is listed
        /\ unreadable \in {U \in SUBSET (DOMAIN fs) :
                              Cardinality(U) <= (IF tool \in {"tools", "process"} THEN 1 ELSE 0)}
        /\ readonly = {}
        /\ nocase \in (IF tool = "process" THEN {FALSE} ELSE BOOLEAN)
        /\ option = ""
        /\ InitCommon

NextScan ==
    \/ AnalyzeDirectory
    \/ SetCurrentVault
    \/ GetMarkdownFiles
    \/ ToolGetAllMarkdownFiles
    \/ ProcessFilesCall
    \/ ProcessFilesStep
    \/ ProcessFilesReturn

SpecScan == InitScan /\ [][NextScan]_vars



\* ------------------------------------------------------------------------
\* Properties of FileOrganizer
\* ------------------------------------------------------------------------
\* C1: in a confirmed batch of move or rename operations every operation is
\* attempted exactly once, in input order, whether or not earlier ones
\* failed, and when the batch ends successCount plus the number of
\* collected failures is the number of operations.
C1_EveryOperationAttemptedOnce ==
    pc \in {"moving", "done"} =>
        /\ attempted = [i \in 1..(idx - 1) |-> i]
        /\ successCount + Len(errors) = idx - 1
        /\ (pc = "done" => idx = Len(ops) + 1)

\* a finished batch whose first operation failed and a later one succeeded
C1_Witness ==
    /\ pc = "done"
    /\ Len(ops) >= 2
    /\ Len(errors) >= 1
    /\ errors[1].operation = ops[1]
    /\ successCount >= 1

\* C2: a batch in which K operations find their destination occupied ends
\* with successCount = N - K and K failures; an operation that finds its
\* destination occupied fails, the destination keeps its content and the
\* source stays at its path with its content.
C2_OccupiedDestinationFails ==
    /\ pc = "done" =>
           /\ successCount = Len(ops) - occupied
           /\ Len(errors) = occupied
    /\ (lastStep.kind \in {"move", "rename"} /\ Exists(lastStep.before, lastStep.to)) =>
           /\ ~lastStep.ok
           /\ Exists(fs, lastStep.to)
           /\ fs[lastStep.to] = lastStep.before[lastStep.to]
           /\ Exists(fs, lastStep.from)
           /\ fs[lastStep.from] = lastStep.before[lastStep.from]

\* a finished batch with an occupied destination (two sources of one
\* basename, or a file already there) and a successful move
C2_Witness ==
    /\ pc = "done"
    /\ occupied >= 1
    /\ successCount >= 1
    /\ \E i \in 1..Len(errors) : errors[i].operation.from # errors[i].operation.to

\* C10: the destination of every emitted move operation lies strictly
\* inside <vaultRoot>/organized/<strategy>/, for every frontmatter.type and
\* every custom pattern.
C10_DestinationInsideStrategyRoot ==
    LET \* the directory <vaultRoot>/organized/<strategy> of a move strategy
        StrategyRoot(type) ==
            pathJoin(Vault, <<"organized",
                              CASE type \in {"date-created", "date-modified"} -> "by-date"
                                [] type = "tags" -> "by-tags"
                                [] type = "type" -> "by-type"
                                [] type = "size" -> "by-size"
                                [] OTHER -> "custom">>)
    IN  (pc \in {"preview", "moving", "done", "cancelled"} /\ tool \in OrganizeTypes \ {"rename"}) =>
            \A i \in 1..Len(ops) : IsStrictlyInside(ops[i].to, StrategyRoot(tool))

\* C3: a content update written through FileProcessor.updateFile by
\* removeTrailingWhitespace leaves the frontmatter on disk as it was
\* immediately before the update
C3_ContentUpdateKeepsFrontmatter ==
    (lastStep.kind = "update" /\ lastStep.ok) =>
        parseMarkdown(fs[lastStep.from].text).frontmatter
            = parseMarkdown(lastStep.before[lastStep.from].text).frontmatter

\* C4: after updateFileFrontmatter(path, F) the file on disk holds the
\* frontmatter that was on disk at write time overridden key-for-key by F,
\* and the body that was on disk at write time
C4_FrontmatterMergedBodyKept ==
    (lastStep.kind = "frontmatter" /\ lastStep.ok) =>
        LET old == parseMarkdown(lastStep.before[lastStep.from].text)
            new == parseMarkdown(fs[lastStep.from].text)
        IN /\ AsFunction(new.frontmatter) = AsFunction(SpreadMerge(old.frontmatter, lastStep.arg))
           /\ new.content = old.content

C6_CleanupNeverAborted ==
    (tool = "cleanup" /\ lastStep.kind \in {"delete", "update"} /\ ~lastStep.ok) =>
        /\ pc # "failed"
        /\ Len(errors) >= 1

\* C7: processFiles never throws; every input path yields exactly one File
\* Record (when it can be read and stat'd) or exactly one error entry
\* (otherwise), results.length + errors.length = N, both in input order
C7_ResultsAndErrorsPartitionInput ==
    LET \* the paths of a list of File Records or of error entries
        PathsOf(entries) == [i \in 1..Len(entries) |-> entries[i].path]
    IN  (tool \in ScanTools /\ pc \in {"scanning", "scanned"}) =>
            LET done == SubSeq(files, 1, scanIdx - 1)
            IN /\ PathsOf(results) = SelectSeq(done, LAMBDA p : CanRead(fs, unreadable, p))
               /\ PathsOf(scanErrors) = SelectSeq(done, LAMBDA p : ~CanRead(fs, unreadable, p))
               /\ \A i \in 1..Len(results) : results[i] = processFile(fs, results[i].path)
               /\ Len(results) + Len(scanErrors) = scanIdx - 1
               /\ (pc = "scanned" => scanIdx - 1 = Len(files))

\* processFiles returned with a File Record and an error entry
C7_Witness ==
    /\ tool \in ScanTools
    /\ pc = "scanned"
    /\ Len(results) >= 1
    /\ Len(scanErrors) >= 1

\* C8: no path returned by a markdown listing and no file counted by
\* analyzeDirectory lies under .git, .obsidian or node_modules at any depth,
\* nor under the organized output directory
C8_ListingsSkipExcludedDirectories ==
    LET \* the directory names the listings are to keep out of, at any depth
        ExcludedNames == {".git", ".obsidian", "node_modules", "organized"}
        \* p lies under a directory of an excluded name somewhere below root
        UnderExcluded(p, root) ==
            \E i \in (Len(root) + 1)..(Len(p) - 1) : p[i] \in ExcludedNames
    IN  /\ (tool = "list" /\ pc \in {"scanning", "scanned"}) =>
               \A i \in 1..Len(files) : ~UnderExcluded(files[i], Vault)
        /\ (tool = "analyze" /\ pc = "done") =>
               vaultInfo.markdownFiles
                   <= Cardinality({p \in DOMAIN fs : /\ IsStrictlyInside(p, vaultInfo.path)
                                                     /\ ~UnderExcluded(p, vaultInfo.path)})

\* C9: the markdownFiles count of analyzeDirectory is the number of files
\* below the directory, outside excluded subtrees, with an extension among
\* .md, .markdown, .mdown, .mkd in any letter case; one such file makes the
\* directory a vault
C9_CountsEveryMarkdownExtension ==
    LET \* the directory names the listings are to keep out of, at any depth
        ExcludedNames == {".git", ".obsidian", "node_modules", "organized"}
        \* p lies under a directory of an excluded name somewhere below root
        UnderExcluded(p, root) ==
            \E i \in (Len(root) + 1)..(Len(p) - 1) : p[i] \in ExcludedNames
    IN  (tool = "analyze" /\ pc = "done" /\ vaultInfo.path \in dirs
                              /\ lastStep.arg = <<"none">>) =>
            LET notes == {p \in DOMAIN fs : /\ IsStrictlyInside(p, vaultInfo.path)
                                            /\ ~UnderExcluded(p, vaultInfo.path)
                                            /\ isMarkdownFile(p)}
            IN (\A p \in DOMAIN fs : ~UnderExcluded(p, vaultInfo.path)) =>
                   /\ vaultInfo.markdownFiles = Cardinality(notes)
                   /\ (notes # {} => vaultInfo.isVault)

\* C11: in the organize-by-tags pipeline a file whose tag set (inline
\* #hashtags of the body united with the frontmatter tags value) is not
\* empty is given the destination by-tags/{sanitized first tag};
\* by-tags/untagged is given only to files whose tag set is empty
C11_TaggedFilesGoToFirstTag ==
    LET \* the frontmatter tags value, normalized to an array
        FrontmatterTags(fileInfo) ==
            IF ~HasTruthy(fileInfo, "tags") THEN <<>>
            ELSE IF GetValue(fileInfo.frontmatter, "tags").ty = "array"
            THEN GetValue(fileInfo.frontmatter, "tags").items
            ELSE <<GetValue(fileInfo.frontmatter, "tags")>>
        \* the body holds no '#', hence no inline hashtag
        NoHashtag(fileInfo) ==
            \A i \in 1..Len(fileInfo.content) : ~Includes(fileInfo.content[i], "#")
        Untagged == pathJoin(Vault, <<"organized", "by-tags", "untagged">>)
    IN  (tool = "tags" /\ pc \in {"preview", "moving", "done", "cancelled"}) =>
            \A i \in 1..Len(ops) :
                /\ (NoHashtag(results[i]) /\ FrontmatterTags(results[i]) # <<>>) =>
                       ops[i].folder = pathJoin(Vault, <<"organized", "by-tags",
                                           sanitizeFilename(FrontmatterTags(results[i])[1].tx)>>)
                /\ ops[i].folder = Untagged =>
                       (NoHashtag(results[i]) /\ FrontmatterTags(results[i]) = <<>>)

\* C12: every descriptor returned by analyzeDirectory, the one returned
\* when the markdown enumeration fails after the .obsidian check included,
\* has isVault = (hasObsidianFolder OR markdownFiles > 0)
C12_IsVaultIffObsidianOrMarkdown ==
    lastStep.kind \in {"analyzeDirectory", "setCurrentVault"} =>
        vaultInfo.isVault = (vaultInfo.hasObsidianFolder \/ vaultInfo.markdownFiles > 0)

\* C13: analyzeDirectory never raises; for a path that does not exist, is not
\* a directory, or cannot be accessed or enumerated it returns isVault =
\* false, hasObsidianFolder = false and markdownFiles = 0
C13_AnalyzeDirectoryFailsSoft ==
    lastStep.kind \in {"analyzeDirectory", "setCurrentVault"} =>
        /\ pc # "failed"
        /\ vaultInfo.path = lastStep.from
        /\ (lastStep.from \notin dirs \/ lastStep.arg # <<"none">>) =>
               /\ ~vaultInfo.isVault
               /\ ~vaultInfo.hasObsidianFolder
               /\ vaultInfo.markdownFiles = 0

C15_NoVaultSetFailsHard ==
    lastStep.kind \in {"getMarkdownFiles", "getAllMarkdownFiles"} =>
        IF lastStep.from = <<>> /\ currentVault = NoVault
        THEN /\ pc = "failed"
             /\ files = <<>> /\ results = <<>> /\ scanErrors = <<>>
             /\ fs = lastStep.before
        ELSE pc # "failed"

\* C16: no file is moved, written or deleted and no directory is created
\* before the operator has answered the confirmation question with yes: every
\* step that changes the filesystem or attempts a move starts in a state
\* reached by a yes answer, so a declined operation leaves the filesystem as
\* it was
C16_ConfirmationGatesEveryMutation ==
    [][(fs' # fs \/ dirs' # dirs \/ attempted' # attempted) =>
           pc \in {"moving", "applying"}]_vars

\* the operator declined a non-empty list of move operations
C16_Witness ==
    /\ pc = "cancelled"
    /\ Len(ops) > 0
    /\ attempted = <<>>
    /\ lastStep.kind = "none"

\* ------------------------------------------------------------------------
\* The utility classes called on their own: the argument is drawn in the
\* initial state, the steps are the calls
\* ------------------------------------------------------------------------

\* PropertyManager.standardProperties in the order of the Map
standardProperties ==
    <<[name |-> "created", aliases |-> {"date-created", "dateCreated", "creation-date"}],
      [name |-> "modified", aliases |-> {"date-modified", "dateModified", "last-modified"}],
      [name |-> "tags", aliases |-> {"tag", "categories", "category"}],
      [name |-> "title", aliases |-> {"name", "heading"}],
      [name |-> "author", aliases |-> {"creator", "writer"}],
      [name |-> "status", aliases |-> {"state"}],
      [name |-> "priority", aliases |-> {"importance"}],
      [name |-> "type", aliases |-> {"kind", "category"}],
      [name |-> "description", aliases |-> {"summary", "excerpt"}],
      [name |-> "source", aliases |-> {"reference", "url", "link"}]>>

\* PropertyManager.findStandardProperty
findStandardProperty(propertyName) ==
    LET lowerName == ToLowerCase(propertyName)
        n == Len(standardProperties)
        Without(str, c) == JoinWith(Split(str, c), "")
        \* arePropertiesSimilar: str.toLowerCase().replace(/[-_\s]/g, '')
        normalize(str) == Without(Without(Without(ToLowerCase(str), "-"), "_"), " ")
        aliasHits == {i \in 1..n : lowerName \in standardProperties[i].aliases}
        similarHits == {i \in 1..n : normalize(lowerName) = normalize(standardProperties[i].name)}
        First(S) == CHOOSE i \in S : \A j \in S : i <= j
    IN  IF \E i \in 1..n : standardProperties[i].name = lowerName THEN lowerName
        ELSE IF aliasHits # {} THEN standardProperties[First(aliasHits)].name
        ELSE IF similarHits # {} THEN standardProperties[First(similarHits)].name
        ELSE propertyName

\* PropertyManager.standardizePropertyNames
standardizePropertyNames(frontmatter) ==
    LET renamed == [i \in 1..Len(frontmatter) |->
                       [k |-> findStandardProperty(frontmatter[i].k), v |-> frontmatter[i].v]]
        pairs == [i \in 1..Len(frontmatter) |->
                     [from |-> frontmatter[i].k, to |-> renamed[i].k]]
    IN  [frontmatter |-> SpreadMerge(<<>>, renamed),
         mappings |-> SelectSeq(pairs, LAMBDA m : m.from # m.to)]

\* standardizePropertyNames(fileInfo.frontmatter) of the file record in
\* results[1]; the mappings returned are kept in ops
StandardizePropertyNames ==
    /\ pc = "ready"
    /\ tool = "standardize"
    /\ LET out == standardizePropertyNames(results[1].frontmatter)
       IN /\ results' = Append(results, [frontmatter |-> out.frontmatter,
                                         content |-> results[1].content])
          /\ ops' = out.mappings
    /\ pc' = "done"
    /\ UNCHANGED <<diskVars, envVars, managerVars, vaultVars, clock, tool, option, files, scanIdx,
                   scanErrors, todo, idx, successCount, errors, progress, histVars>>

\* stringifyMarkdown({frontmatter, content}) of the file record in results[1]
StringifyMarkdown ==
    /\ pc = "ready"
    /\ tool = "stringify-parse"
    /\ todo' = <<stringifyMarkdown(results[1].frontmatter, results[1].content)>>
    /\ pc' = "written"
    /\ UNCHANGED <<diskVars, envVars, managerVars, vaultVars, clock, tool, option, scanVars, ops, idx,
                   successCount, errors, progress, histVars>>

\* parseMarkdown of the text stringifyMarkdown returned
ParseMarkdown ==
    /\ pc = "written"
    /\ tool = "stringify-parse"
    /\ results' = Append(results, parseMarkdown(todo[1]))
    /\ pc' = "done"
    /\ UNCHANGED <<diskVars, envVars, managerVars, vaultVars, clock, tool, option, files, scanIdx,
                   scanErrors, batchVars, progress, histVars>>

\* PropertyManager.addMissingProperties; `!updated.<key>` is the truthiness
\* test, fileStats holds the two dates of the file record
addMissingProperties(frontmatter, filePath, fileStats) ==
    LET Missing(updated, key) == ~HasTruthy([frontmatter |-> updated], key)
        created == Scalar("string", IsoDate(fileStats.birthtime))
        modified == Scalar("string", IsoDate(fileStats.mtime))
        addCreated == Missing(frontmatter, "created")
        withCreated == IF addCreated THEN SetValue(frontmatter, "created", created)
                       ELSE frontmatter
        addModified == Missing(withCreated, "modified")
        withModified == IF addModified THEN SetValue(withCreated, "modified", modified)
                        ELSE withCreated
        addTags == Missing(withModified, "tags")
        withTags == IF addTags THEN SetValue(withModified, "tags", ArrVal(<<>>))
                    ELSE withModified
    IN  [frontmatter |-> withTags,
         additions |->
             (IF addCreated THEN <<[property |-> "created", value |-> created]>> ELSE <<>>)
             \o (IF addModified THEN <<[property |-> "modified", value |-> modified]>> ELSE <<>>)
             \o (IF addTags THEN <<[property |-> "tags", value |-> ArrVal(<<>>)]>> ELSE <<>>)]

\* the call PropertyOrganizer.addMissingProperties makes for the file record
\* in results[1]; the additions returned are kept in ops
AddMissingProperties ==
    /\ pc = "ready"
    /\ tool = "add-missing"
    /\ LET fileInfo == results[1]
           out == addMissingProperties(fileInfo.frontmatter, fileInfo.path,
                                       [birthtime |-> fileInfo.created,
                                        mtime |-> fileInfo.modified])
       IN /\ results' = Append(results, [fileInfo EXCEPT !.frontmatter = out.frontmatter])
          /\ ops' = out.additions
    /\ pc' = "done"
    /\ UNCHANGED <<diskVars, envVars, managerVars, vaultVars, clock, tool, option, files, scanIdx,
                   scanErrors, todo, idx, successCount, errors, progress, histVars>>

\* sanitizeFilename(filename), then sanitizeFilename of what it returned; the
\* values returned are kept in todo
SanitizeFilename ==
    /\ pc \in {"ready", "sanitized"}
    /\ tool = "sanitize"
    /\ LET filename == IF pc = "ready" THEN option ELSE todo[Len(todo)]
       IN todo' = Append(todo, sanitizeFilename(filename))
    /\ pc' = IF pc = "ready" THEN "sanitized" ELSE "done"
    /\ UNCHANGED <<diskVars, envVars, managerVars, vaultVars, clock, tool, option, scanVars, ops, idx,
                   successCount, errors, progress, histVars>>

\* the keys and values the operator sets
ConfigKeys == {<<"defaultVaultPath">>, <<"logging", "level">>, <<"backup", "maxBackups">>}

\* ConfigManager.loadConfig()
LoadConfig ==
    /\ pc = "ready"
    /\ tool = "config"
    /\ \E written \in BOOLEAN :
         LET loaded == loadConfig(configManager, configFiles, written)
         IN /\ configManager' = loaded.cm
            /\ configFiles' = loaded.files
    /\ lastStep' = [lastStep EXCEPT !.kind = "loadConfig"]
    /\ UNCHANGED <<diskVars, envVars, vaultVars, clock, pc, tool, option, scanVars, batchVars,
                   progress, attempted, occupied, recentVaults, historyFile, loadCall,
                   historyCall>>

\* ConfigManager.updateConfig(key, value): load when nothing is loaded, walk
\* to the parent object, assign, save
UpdateConfig ==
    /\ pc = "ready"
    /\ tool = "config"
    /\ \E keys \in ConfigKeys, written \in BOOLEAN :
         LET value == IF keys = <<"defaultVaultPath">> THEN "/notes"
                      ELSE IF keys = <<"logging", "level">> THEN "debug"
                      ELSE 5
             loaded == IF ~configManager.loaded
                       THEN loadConfig(configManager, configFiles, written)
                       ELSE [cm |-> configManager, files |-> configFiles]
             cm == loaded.cm
             \* the parent object is config itself, or a nested object, which
             \* may be the nested object of defaultConfig
             assigned ==
                 IF Len(keys) = 1
                 THEN [cm EXCEPT !.config[keys[1]] = value]
                 ELSE [cm EXCEPT !.config[keys[1]][keys[2]] = value,
                                 !.defaultConfig[keys[1]][keys[2]] =
                                     IF keys[1] \in cm.shared THEN value ELSE @]
         IN /\ configManager' = assigned
            /\ configFiles' = saveConfig(assigned, loaded.files, written)
            /\ lastStep' = [lastStep EXCEPT !.kind = "updateConfig", !.ok = written]
    /\ UNCHANGED <<diskVars, envVars, vaultVars, clock, pc, tool, option, scanVars, batchVars,
                   progress, attempted, occupied, recentVaults, historyFile, loadCall,
                   historyCall>>

\* ConfigManager.resetToDefaults()
ResetToDefaults ==
    /\ pc = "ready"
    /\ tool = "config"
    /\ \E written \in BOOLEAN :
         /\ configManager' = SpreadDefaults(configManager)
         /\ configFiles' = saveConfig(SpreadDefaults(configManager), configFiles, written)
         /\ lastStep' = [lastStep EXCEPT !.kind = "resetToDefaults", !.ok = written]
    /\ UNCHANGED <<diskVars, envVars, vaultVars, clock, pc, tool, option, scanVars, batchVars,
                   progress, attempted, occupied, recentVaults, historyFile, loadCall,
                   historyCall>>

\* ConfigManager.setConfigPath(configPath)
SetConfigPath ==
    /\ pc = "ready"
    /\ tool = "config"
    /\ \E configPath \in ConfigPaths :
         configManager' = [configManager EXCEPT !.configPath = configPath,
                                                !.loaded = FALSE, !.shared = {}]
    /\ lastStep' = [lastStep EXCEPT !.kind = "setConfigPath"]
    /\ UNCHANGED <<diskVars, envVars, vaultVars, clock, pc, tool, option, scanVars, batchVars,
                   progress, attempted, occupied, configFiles, recentVaults, historyFile,
                   loadCall, historyCall>>

InitUtils ==
    LET UtilTools == {"stringify-parse", "standardize", "add-missing", "sanitize", "config"}
    IN  LET \* frontmatter values: strings, numbers, booleans, null, arrays of strings
            Values ==
                {Scalar("string", str) : str \in {"a", "42", "true", "null", "[x", "[x]", "a: b", ""}}
                \cup {Scalar("number", "7"), Scalar("boolean", "false"), Scalar("null", "null"),
                      ArrVal(<<>>), ArrVal(<<Scalar("string", "a"), Scalar("string", "b")>>),
                      ArrVal(<<Scalar("string", "1")>>)}
            Frontmatters ==
                {<<>>} \cup {<<[k |-> "title", v |-> v1]>> : v1 \in Values}
                       \cup {<<[k |-> "title", v |-> v1], [k |-> "n", v |-> v2]>> :
                                 v1 \in Values, v2 \in Values}
            Bodies == {<<"x">>, <<"# H", "", "x">>, <<"">>}
            \* property names as stored in notes
            PropertyKeys == {"date-created", "dateCreated", "creation-date", "dateModified",
                             "Date-Created", "Name", "category", "ti_tle", "foo", "created",
                             "tag", "tags"}
            \* every entry holds a value of its own
            Entry(key) == [k |-> key, v |-> Scalar("string", "v " \o key)]
            KeyedFrontmatters ==
                {<<Entry(k1)>> : k1 \in PropertyKeys}
                \cup UNION {{<<Entry(k1), Entry(k2)>> : k2 \in PropertyKeys \ {k1}} :
                                k1 \in PropertyKeys}
            \* frontmatters whose created, modified or tags key is present with
            \* any kind of value
            PresentValues ==
                {Scalar("null", "null"), Scalar("boolean", "false"), Scalar("number", "0"),
                 Scalar("string", ""), ArrVal(<<>>), Scalar("string", "2020-01-02"),
                 ArrVal(<<Scalar("string", "a")>>)}
            PresentKeys == {"created", "modified", "tags", "title"}
            PresentFrontmatters ==
                {<<>>} \cup {<<[k |-> k1, v |-> v1]>> : k1 \in PresentKeys, v1 \in PresentValues}
                       \cup UNION {{<<[k |-> k1, v |-> v1], [k |-> k2, v |-> v2]>> :
                                        k2 \in PresentKeys \ {k1}, v1 \in PresentValues,
                                        v2 \in PresentValues} : k1 \in PresentKeys}
            \* the filenames of at most MaxNameLen characters
            RECURSIVE Filenames(_)
            Filenames(n) ==
                IF n = 0 THEN {""}
                ELSE Filenames(n - 1)
                     \cup {str \o c : str \in Filenames(n - 1), c \in {"a", "-", " ", "\t", ":"}}
        IN  /\ fs = <<>> /\ dirs = {} /\ unreadable = {} /\ readonly = {} /\ nocase = FALSE
            /\ clock = 1 /\ vaultInfo = NoVault /\ currentVault = NoVault
            /\ pc = "ready"
            /\ tool \in UtilTools
            /\ IF tool = "sanitize" THEN option \in Filenames(MaxNameLen) ELSE option = ""
            /\ \/ /\ tool \in {"sanitize", "config"}
                  /\ results = <<>>
               \/ /\ tool = "stringify-parse"
                  /\ \E frontmatter \in Frontmatters, content \in Bodies :
                         results = <<[frontmatter |-> frontmatter, content |-> content]>>
               \/ /\ tool = "add-missing"
                  /\ \E frontmatter \in PresentFrontmatters :
                         results = <<[frontmatter |-> frontmatter, content |-> <<"x">>,
                                      path |-> <<"v", "a.md">>,
                                      created |-> [y |-> 2020, m |-> 1, d |-> 2],
                                      modified |-> [y |-> 2021, m |-> 3, d |-> 4]]>>
               \/ /\ tool = "standardize"
                  /\ \E frontmatter \in KeyedFrontmatters :
                         results = <<[frontmatter |-> frontmatter, content |-> <<"x">>]>>
            /\ files = <<>> /\ scanIdx = 1 /\ scanErrors = <<>>
            /\ todo = <<>> /\ ops = <<>> /\ idx = 1 /\ successCount = 0 /\ errors = <<>>
            /\ progress = <<>>
            /\ attempted = <<>> /\ occupied = 0
            /\ lastStep = [kind |-> "none", ok |-> TRUE, backup |-> FALSE, from |-> <<>>,
                           to |-> <<>>, arg |-> <<>>, before |-> <<>>]
            /\ configManager = NewConfigManager
            \* a configuration file may be absent, unparsable, or hold settings
            /\ IF tool = "config"
               THEN configFiles \in [ConfigPaths ->
                        {[state |-> "missing", value |-> BuiltInDefaults],
                         [state |-> "malformed", value |-> BuiltInDefaults],
                         [state |-> "valid",
                          value |-> [BuiltInDefaults EXCEPT !.logging = [level |-> "warn"]]]}]
               ELSE configFiles = [p \in ConfigPaths |-> [state |-> "missing",
                                                         value |-> BuiltInDefaults]]
            /\ recentVaults = <<>>
            /\ historyFile = [exists |-> FALSE, recentVaults |-> <<>>, earlier |-> <<>>]
            /\ loadCall = [pc |-> "done", data |-> <<>>]
            /\ historyCall = [pc |-> "idle", path |-> <<>>, calls |-> 0]

NextUtils ==
    \/ StringifyMarkdown
    \/ ParseMarkdown
    \/ StandardizePropertyNames
    \/ AddMissingProperties
    \/ SanitizeFilename
    \/ LoadConfig
    \/ UpdateConfig
    \/ ResetToDefaults
    \/ SetConfigPath

SpecUtils == InitUtils /\ [][NextUtils]_vars

\* ------------------------------------------------------------------------
\* PropertyOrganizer.organize (src/src/tools/property-organizer.js)
\* ------------------------------------------------------------------------
\* filesToUpdate of standardizeProperties, addMissingProperties and
\* sortProperties for the File Records handed to them
propertyUpdates(operation, fileInfos) ==
    LET \* PropertyManager.sortProperties
        propertyOrder == <<"title", "created", "modified", "author", "tags", "type",
                           "status", "priority", "description", "source">>
        InOrder(key) == \E o \in 1..Len(propertyOrder) : propertyOrder[o] = key
        sorted(frontmatter) ==
            [o \in 1..Len(SelectSeq(propertyOrder, LAMBDA prop : HasKey(frontmatter, prop))) |->
                 [k |-> SelectSeq(propertyOrder, LAMBDA prop : HasKey(frontmatter, prop))[o],
                  v |-> GetValue(frontmatter,
                            SelectSeq(propertyOrder, LAMBDA prop : HasKey(frontmatter, prop))[o])]]
            \o SelectSeq(frontmatter, LAMBDA entry : ~InOrder(entry.k))
        KeysOf(frontmatter) == [e \in 1..Len(frontmatter) |-> frontmatter[e].k]
        added(fileInfo) ==
            addMissingProperties(fileInfo.frontmatter, fileInfo.path,
                                 [birthtime |-> fileInfo.created, mtime |-> fileInfo.modified])
        plan(fileInfo) ==
            IF operation = "standardize"
            THEN [file |-> fileInfo.path,
                  newFrontmatter |-> standardizePropertyNames(fileInfo.frontmatter).frontmatter,
                  update |-> /\ fileInfo.frontmatter # <<>>
                             /\ standardizePropertyNames(fileInfo.frontmatter).mappings # <<>>]
            ELSE IF operation = "add-missing"
            THEN [file |-> fileInfo.path,
                  newFrontmatter |-> added(fileInfo).frontmatter,
                  update |-> added(fileInfo).additions # <<>>]
            ELSE [file |-> fileInfo.path,
                  newFrontmatter |-> sorted(fileInfo.frontmatter),
                  update |-> /\ fileInfo.frontmatter # <<>>
                             /\ KeysOf(sorted(fileInfo.frontmatter)) # KeysOf(fileInfo.frontmatter)]
        chosen == SelectSeq([i \in 1..Len(fileInfos) |-> plan(fileInfos[i])],
                            LAMBDA planned : planned.update)
    IN  [i \in 1..Len(chosen) |->
             [file |-> chosen[i].file, newFrontmatter |-> chosen[i].newFrontmatter]]

\* organize: the operations asked for, getAllMarkdownFiles, processFiles starts
PropertyOrganize ==
    /\ pc = "ready"
    /\ tool = "properties"
    /\ \E first \in {"standardize", "add-missing", "sort"},
          second \in {"none", "standardize", "add-missing", "sort"} :
         todo' = IF second = "none" THEN <<first>> ELSE <<first, second>>
    /\ \E listing \in Orderings(GlobMd(fs, Vault, nocase)) : files' = listing
    /\ pc' = "scanning"
    /\ UNCHANGED <<diskVars, envVars, managerVars, vaultVars, clock, tool, option, scanIdx,
                   results, scanErrors, ops, idx, successCount, errors, progress, histVars>>

\* performOperation for the next operation: its filesToUpdate list, computed
\* from the File Records processFiles returned
PerformOperation ==
    /\ pc = "scanned"
    /\ tool = "properties"
    /\ todo # <<>>
    /\ ops' = propertyUpdates(Head(todo), results)
    /\ IF propertyUpdates(Head(todo), results) = <<>>
       THEN pc' = "scanned" /\ todo' = Tail(todo)
       ELSE pc' = "confirm" /\ todo' = todo
    /\ idx' = 1 /\ successCount' = 0
    /\ UNCHANGED <<diskVars, envVars, managerVars, vaultVars, clock, tool, option, scanVars,
                   errors, progress, histVars>>

\* confirmOperation: declined, the operation returns and the next one starts
ConfirmOperation ==
    /\ pc = "confirm"
    /\ tool = "properties"
    /\ \E proceed \in BOOLEAN :
         IF proceed
         THEN pc' = "applying" /\ todo' = todo /\ option' = option
         ELSE pc' = "scanned" /\ todo' = Tail(todo) /\ option' = "declined"
    /\ UNCHANGED <<diskVars, envVars, managerVars, vaultVars, clock, tool, scanVars, ops, idx,
                   successCount, errors, progress, histVars>>

\* the apply loop of the operation is over
PerformOperationDone ==
    /\ pc = "applying"
    /\ tool = "properties"
    /\ idx > Len(ops)
    /\ pc' = "scanned"
    /\ todo' = Tail(todo)
    /\ UNCHANGED <<diskVars, envVars, managerVars, vaultVars, clock, tool, option, scanVars,
                   ops, idx, successCount, errors, progress, histVars>>

\* every operation has run: organize returns
PropertyOrganizeReturn ==
    /\ pc = "scanned"
    /\ tool = "properties"
    /\ todo = <<>>
    /\ pc' = "done"
    /\ UNCHANGED <<diskVars, envVars, managerVars, vaultVars, clock, tool, option, scanVars,
                   batchVars, progress, histVars>>

\* BatchProcessor.runPipeline with 'standardize-properties' selected: the
\* answer to 'Create backup before processing?', createVaultBackup (it
\* computes the backup path and logs it), then runSingleOperation, which
\* starts PropertyOrganizer.organize with the operation standardize
RunPipeline ==
    /\ pc = "ready"
    /\ tool = "properties"
    /\ \E createBackup \in BOOLEAN :
         /\ option' = IF createBackup THEN "pipeline with backup" ELSE "pipeline"
         /\ lastStep' = IF createBackup
                        THEN [kind |-> "createVaultBackup", ok |-> TRUE, backup |-> TRUE,
                              from |-> Vault,
                              to |-> <<Vault[1] \o "-backup-" \o ToString(clock)>>,
                              arg |-> <<>>, before |-> fs]
                        ELSE lastStep
    /\ todo' = <<"standardize">>
    /\ \E listing \in Orderings(GlobMd(fs, Vault, nocase)) : files' = listing
    /\ pc' = "scanning"
    /\ UNCHANGED <<diskVars, envVars, managerVars, vaultVars, clock, tool, scanIdx, results,
                   scanErrors, ops, idx, successCount, errors, progress, attempted, occupied>>

InitProperties ==
    LET PropertyTexts ==
            {<<"body">>,
             <<"---", "name: x", "b: 1", "---", "body">>,
             <<"---", "b: 1", "title: x", "---", "body">>,
             <<"---", "date-created: 2020", "---", "body">>}
    IN  /\ fs \in Filesystems({<<"v", "a.md">>, <<"v", "b.md">>}, PropertyTexts, MaxFiles)
        /\ dirs = DirsOf(fs) \cup {Vault}
        /\ unreadable = {}
        /\ readonly \in {R \in SUBSET (DOMAIN fs) : Cardinality(R) <= 1}
        /\ nocase = FALSE
        /\ tool = "properties"
        /\ option = ""
        /\ InitCommon

NextProperties ==
    \/ PropertyOrganize
    \/ RunPipeline
    \/ ProcessFilesStep
    \/ ProcessFilesReturn
    \/ PerformOperation
    \/ ConfirmOperation
    \/ ApplyFrontmatterStep
    \/ PerformOperationDone
    \/ PropertyOrganizeReturn

SpecProperties == InitProperties /\ [][NextProperties]_vars

\* ------------------------------------------------------------------------
\* VaultManager: the history of recent vaults
\* ------------------------------------------------------------------------
\* the synchronous part of addToHistory: filter, unshift, slice(0, 10)
addToHistory(recent, vaultPath) ==
    LET added == <<vaultPath>> \o SelectSeq(recent, LAMBDA p : p # vaultPath)
    IN SubSeq(added, 1, IF Len(added) < 10 THEN Len(added) ELSE 10)

\* loadVaultHistory, started by the constructor and not awaited: one step
\* per await (pathExists, readJson, the pathExists calls of the validation
\* loop, which runs over the array readJson returned)
LoadVaultHistory ==
    /\ tool = "history"
    /\ loadCall.pc # "done"
    /\ CASE loadCall.pc = "pathExists" ->
                /\ loadCall' = [loadCall EXCEPT !.pc = IF historyFile.exists THEN "readJson"
                                                       ELSE "done"]
                /\ recentVaults' = recentVaults
         [] loadCall.pc = "readJson" ->
                /\ recentVaults' = historyFile.recentVaults
                /\ loadCall' = [pc |-> IF historyFile.recentVaults = <<>> THEN "done"
                                       ELSE "validating",
                                data |-> historyFile.recentVaults]
         [] OTHER ->
                /\ recentVaults' = SelectSeq(loadCall.data,
                                             LAMBDA p : Exists(fs, p) \/ p \in dirs)
                /\ loadCall' = [loadCall EXCEPT !.pc = "done"]
    /\ UNCHANGED <<diskVars, envVars, configManager, configFiles, historyFile, historyCall,
                   vaultVars, clock, pc, tool, option, scanVars, batchVars, progress, histVars>>

\* setCurrentVaultWithHistory(vaultPath): setCurrentVault, and when it
\* returns true the synchronous part of addToHistory; saveVaultHistory is
\* left waiting for ensureDir
SetCurrentVaultWithHistory ==
    /\ tool = "history"
    /\ historyCall.pc = "idle"
    /\ \E vaultPath \in {Vault, <<"w">>} :
         LET info == analyzeDirectory(fs, dirs, nocase, vaultPath, "none")
         IN /\ vaultInfo' = info
            /\ currentVault' = IF info.isVault THEN info ELSE currentVault
            /\ recentVaults' = IF info.isVault THEN addToHistory(recentVaults, vaultPath)
                               ELSE recentVaults
            /\ historyCall' = [pc |-> IF info.isVault THEN "saving" ELSE "idle",
                               path |-> vaultPath,
                               calls |-> IF historyCall.calls < 2 THEN historyCall.calls + 1
                                         ELSE 2]
            /\ lastStep' = [kind |-> "setCurrentVaultWithHistory", ok |-> info.isVault,
                            backup |-> FALSE, from |-> vaultPath, to |-> <<>>, arg |-> <<>>,
                            before |-> fs]
    /\ UNCHANGED <<diskVars, envVars, configManager, configFiles, historyFile, loadCall,
                   clock, pc, tool, option, scanVars, batchVars, progress, attempted, occupied>>

\* addToHistory(vaultPath) called on its own
AddToHistory ==
    /\ tool = "history"
    /\ historyCall.pc = "idle"
    /\ \E vaultPath \in {Vault, <<"w">>} :
         /\ recentVaults' = addToHistory(recentVaults, vaultPath)
         /\ historyCall' = [pc |-> "saving", path |-> vaultPath,
                            calls |-> IF historyCall.calls < 2 THEN historyCall.calls + 1
                                      ELSE 2]
         /\ lastStep' = [kind |-> "addToHistory", ok |-> TRUE, backup |-> FALSE,
                         from |-> vaultPath, to |-> <<>>, arg |-> <<>>, before |-> fs]
    /\ UNCHANGED <<diskVars, envVars, configManager, configFiles, historyFile, loadCall,
                   vaultVars, clock, pc, tool, option, scanVars, batchVars, progress,
                   attempted, occupied>>

\* saveVaultHistory after ensureDir: writeJson of this.recentVaults as it is
\* now
SaveVaultHistory ==
    /\ tool = "history"
    /\ historyCall.pc = "saving"
    /\ historyFile' = [historyFile EXCEPT !.exists = TRUE, !.recentVaults = recentVaults]
    /\ historyCall' = [historyCall EXCEPT !.pc = "idle"]
    /\ UNCHANGED <<diskVars, envVars, configManager, configFiles, recentVaults, loadCall,
                   vaultVars, clock, pc, tool, option, scanVars, batchVars, progress, histVars>>

\* a new VaultManager; config/vault-history.json is as the earlier sessions
\* left it (historyFile.earlier keeps that list)
InitHistory ==
    LET Recent(n) == [i \in 1..n |-> <<"h" \o ToString(i)>>]
        Persisted == {<<>>, <<Vault, <<"h1">>>>, <<<<"h1">>, <<"gone">>>>, Recent(10)}
    IN  /\ fs \in Filesystems({<<"v", "a.md">>}, {<<"note">>}, MaxFiles)
        /\ dirs = DirsOf(fs) \cup {Vault} \cup {Recent(10)[i] : i \in 1..10}
        /\ unreadable = {} /\ readonly = {} /\ nocase = FALSE
        /\ tool = "history"
        /\ option = ""
        /\ clock = 1 /\ vaultInfo = NoVault /\ currentVault = NoVault
        /\ pc = "ready"
        /\ files = <<>> /\ scanIdx = 1 /\ results = <<>> /\ scanErrors = <<>>
        /\ todo = <<>> /\ ops = <<>> /\ idx = 1 /\ successCount = 0 /\ errors = <<>>
        /\ progress = <<>>
        /\ attempted = <<>> /\ occupied = 0
        /\ lastStep = [kind |-> "none", ok |-> TRUE, backup |-> FALSE, from |-> <<>>,
                       to |-> <<>>, arg |-> <<>>, before |-> <<>>]
        /\ configManager = NewConfigManager
        /\ configFiles = [p \in ConfigPaths |-> [state |-> "missing", value |-> BuiltInDefaults]]
        /\ recentVaults = <<>>
        /\ \/ historyFile = [exists |-> FALSE, recentVaults |-> <<>>, earlier |-> <<>>]
           \/ \E earlier \in Persisted :
                  historyFile = [exists |-> TRUE, recentVaults |-> earlier, earlier |-> earlier]
        /\ loadCall = [pc |-> "pathExists", data |-> <<>>]
        /\ historyCall = [pc |-> "idle", path |-> <<>>, calls |-> 0]

NextHistory ==
    \/ LoadVaultHistory
    \/ SetCurrentVaultWithHistory
    \/ AddToHistory
    \/ SaveVaultHistory

SpecHistory == InitHistory /\ [][NextHistory]_vars

\* C17: parsing the text stringifyMarkdown wrote for a frontmatter of strings,
\* numbers, booleans, nulls and arrays of strings and a body gives back the
\* same keys with the same typed values and the same body
C17_FrontmatterRoundTrip ==
    (tool = "stringify-parse" /\ pc = "done") =>
        /\ AsFunction(results[2].frontmatter) = AsFunction(results[1].frontmatter)
        /\ results[2].content = results[1].content

\* C18: standardizePropertyNames renames every key that equals, letter case
\* aside, an alias of the alias table to the canonical name of that alias
\* (date-created, dateCreated, creation-date to created; dateModified to
\* modified) and records the rename as a {from, to} mapping
C18_AliasesResolveInAnyCase ==
    (tool = "standardize" /\ pc = "done") =>
        \A i \in 1..Len(results[1].frontmatter) :
            LET key == results[1].frontmatter[i].k
                canonical == {standardProperties[j].name : j \in
                                 {h \in 1..Len(standardProperties) :
                                      \E alias \in standardProperties[h].aliases :
                                          ToLowerCase(alias) = ToLowerCase(key)}}
            IN canonical # {} =>
                   \E name \in canonical :
                       /\ HasKey(results[2].frontmatter, name)
                       /\ \E m \in 1..Len(ops) : ops[m] = [from |-> key, to |-> name]

\* C19: addMissingProperties leaves the value of every key of the input
\* frontmatter as it was (null, false, 0, "" and [] included) and adds and
\* reports created, modified and tags only when the key is absent
C19_PresentKeysKeepTheirValue ==
    (tool = "add-missing" /\ pc = "done") =>
        /\ \A i \in 1..Len(results[1].frontmatter) :
               /\ HasKey(results[2].frontmatter, results[1].frontmatter[i].k)
               /\ GetValue(results[2].frontmatter, results[1].frontmatter[i].k)
                      = results[1].frontmatter[i].v
        /\ \A m \in 1..Len(ops) : ~HasKey(results[1].frontmatter, ops[m].property)
        /\ \A key \in {"created", "modified", "tags"} :
               ~HasKey(results[1].frontmatter, key) =>
                   /\ HasKey(results[2].frontmatter, key)
                   /\ \E m \in 1..Len(ops) : ops[m].property = key

\* C20: the name sanitizeFilename returns holds none of < > : " / \ | ? *,
\* no whitespace and no two hyphens in a row, neither starts nor ends with a
\* hyphen, and sanitizeFilename returns it unchanged
C20_SanitizeFilenameIdempotent ==
    (tool = "sanitize" /\ todo # <<>>) =>
        LET name == todo[1]
        IN /\ \A i \in 1..Len(name) :
                  /\ CharAt(name, i) \notin {"<", ">", ":", "\"", "/", "\\", "|", "?", "*"}
                  /\ ~IsWhitespace(CharAt(name, i))
           /\ ~Includes(name, "--")
           /\ ~StartsWith(name, "-")
           /\ ~EndsWith(name, "-")
           /\ Len(todo) = 2 => todo[2] = name

\* a filename with an invalid character and whitespace, sanitized twice
C20_Witness ==
    /\ tool = "sanitize"
    /\ Len(todo) = 2
    /\ Includes(option, ":")
    /\ Includes(option, " ")
    /\ todo[1] # ""

\* C21: after resetToDefaults getValue returns the built-in default of every
\* key, whatever loadConfig, setConfigPath and updateConfig calls came before,
\* and no operation changes the built-in defaults
C21_ResetRestoresBuiltInDefaults ==
    tool = "config" =>
        /\ configManager.defaultConfig = BuiltInDefaults
        /\ lastStep.kind = "resetToDefaults" =>
               \A keys \in ConfigKeys :
                   getValue(configManager, configFiles, keys) =
                       (IF Len(keys) = 1 THEN BuiltInDefaults[keys[1]]
                        ELSE BuiltInDefaults[keys[1]][keys[2]])

\* C22: when organize runs several operations in one call, each operation
\* computes its updates from File Records that reflect the files as they are
\* on disk at that moment: the updates it plans are the updates a fresh scan
\* of the files would give
C22_OperationsSeeCurrentFiles ==
    (tool = "properties" /\ pc = "confirm" /\ unreadable = {}) =>
        ops = propertyUpdates(Head(todo), [i \in 1..Len(files) |-> processFile(fs, files[i])])

\* C25: after standardizeProperties has updated a file, the frontmatter on
\* disk holds no key that standardizePropertyNames would still rename
C25_StandardizedFileHasNoAlias ==
    (tool = "properties" /\ pc = "applying" /\ Head(todo) = "standardize"
        /\ lastStep.kind = "frontmatter" /\ lastStep.ok) =>
        standardizePropertyNames(processFile(fs, lastStep.from).frontmatter).mappings = <<>>

\* C26: after sortProperties has updated a file, the keys of the frontmatter
\* on disk are in the canonical order: title, created, modified, author,
\* tags, type, status, priority, description, source, then the other keys
C26_SortedFileIsInCanonicalOrder ==
    (tool = "properties" /\ pc = "applying" /\ Head(todo) = "sort"
        /\ lastStep.kind = "frontmatter" /\ lastStep.ok) =>
        LET onDisk == processFile(fs, lastStep.from).frontmatter
            Rank(key) ==
                CASE key = "title" -> 1 [] key = "created" -> 2 [] key = "modified" -> 3
                  [] key = "author" -> 4 [] key = "tags" -> 5 [] key = "type" -> 6
                  [] key = "status" -> 7 [] key = "priority" -> 8
                  [] key = "description" -> 9 [] key = "source" -> 10 [] OTHER -> 11
        IN \A i, j \in 1..Len(onDisk) : i < j => Rank(onDisk[i].k) <= Rank(onDisk[j].k)

\* C23: a record whose destination or new name cannot be computed (its
\* frontmatter.type or title is not a string, so sanitizeFilename raises) is
\* the only record left out: once the strategy has run, the batch holds the
\* operation of every other record
C23_StrategyFailureIsPerRecord ==
    (tool \in {"type", "rename"} /\ pc \notin {"ready", "scanning", "scanned"}) =>
        \A i \in 1..Len(results) :
            LET fileInfo == results[i]
                newName == generateNewFilename(fileInfo, option)
                expected ==
                    IF tool = "type" THEN ~byTypeThrows(fileInfo)
                    ELSE /\ ~generateNewFilenameThrows(fileInfo, option)
                         /\ newName # "" /\ newName # fileInfo.name
            IN expected => \E j \in 1..Len(ops) : ops[j].from = fileInfo.path

\* C24: while a batch is scanned or applied, one progress event follows
\* every item, the failed ones included: after k items k events have been
\* emitted, numbered 1..k, each with the size of the batch as its total
C24_OneProgressEventPerItem ==
    (tool \in OrganizeTypes /\ pc \in {"scanning", "scanned", "moving"}) =>
        LET scanned == IF pc = "scanning" THEN scanIdx - 1 ELSE Len(files)
            applied == IF pc = "moving" THEN Len(attempted) ELSE 0
        IN /\ Len(progress) = scanned + applied
           /\ \A n \in 1..Len(progress) :
                  progress[n] = IF n <= scanned
                                THEN [current |-> n, total |-> Len(files)]
                                ELSE [current |-> n - scanned, total |-> Len(ops)]

\* C27: standardizePropertyNames loses no value: its output has as many
\* entries as its input, and every input value is found under the key its
\* input key resolves to, also when two input keys resolve to the same name
C27_StandardizeKeepsEveryValue ==
    (tool = "standardize" /\ pc = "done") =>
        LET input == results[1].frontmatter
            output == results[2].frontmatter
        IN /\ Len(output) = Len(input)
           /\ \A i \in 1..Len(input) :
                  GetValue(output, findStandardProperty(input[i].k)) = input[i].v

\* C28: in every interleaving of the loadVaultHistory the constructor started
\* with one later setCurrentVaultWithHistory(p) that returns true, once both
\* have finished p is the first entry of recentVaults and the entries of the
\* earlier sessions that still exist follow it (up to ten entries in all),
\* in memory and in the saved file
C28_HistoryKeepsSelectedVaultFirst ==
    (tool = "history" /\ loadCall.pc = "done" /\ historyCall.pc = "idle"
        /\ historyCall.calls = 1
        /\ lastStep.kind = "setCurrentVaultWithHistory" /\ lastStep.ok) =>
        LET p == lastStep.from
            earlier == SelectSeq(historyFile.earlier,
                                 LAMBDA e : e # p /\ (Exists(fs, e) \/ e \in dirs))
            kept == SubSeq(earlier, 1, IF Len(earlier) < 9 THEN Len(earlier) ELSE 9)
            Holds(recent) ==
                /\ recent # <<>> /\ recent[1] = p
                /\ \A i \in 1..Len(kept) : \E j \in 2..Len(recent) : recent[j] = kept[i]
        IN Holds(recentVaults) /\ Holds(historyFile.recentVaults)

\* C29: after any sequence of addToHistory and setCurrentVaultWithHistory
\* calls, recentVaults holds no path twice and at most ten entries, the path
\* added last is its first entry, and an entry is added only for a path that
\* setCurrentVault accepted as a vault
C29_HistoryIsWellFormed ==
    tool = "history" =>
        /\ \A i, j \in 1..Len(recentVaults) : i # j => recentVaults[i] # recentVaults[j]
        /\ Len(recentVaults) <= 10
        /\ (historyCall.calls > 0 /\ (lastStep.kind = "addToHistory" \/ lastStep.ok)) =>
               (recentVaults # <<>> /\ recentVaults[1] = lastStep.from)
        /\ \A i \in 1..Len(recentVaults) :
               \/ \E j \in 1..Len(historyFile.earlier) :
                      historyFile.earlier[j] = recentVaults[i]
               \/ analyzeDirectory(fs, dirs, nocase, recentVaults[i], "none").isVault

\* C30: in runPipeline, when the operator asked for a backup, a copy of the
\* vault exists at the backup path before a pipeline operation changes a
\* file: the backup folder holds every file the vault held
C30_BackupExistsBeforeFirstMutation ==
    (tool = "properties" /\ option = "pipeline with backup"
        /\ lastStep.kind = "frontmatter" /\ lastStep.ok) =>
        \E t \in 1..clock :
            \A p \in DOMAIN lastStep.before :
                p[1] = Vault[1] =>
                    Exists(fs, <<Vault[1] \o "-backup-" \o ToString(t)>> \o Tail(p))

\* ------------------------------------------------------------------------
\* The whole program: one tool run on one directory tree
\* ------------------------------------------------------------------------
Init == InitOrganize \/ InitBatch \/ InitScan \/ InitUtils \/ InitProperties \/ InitHistory

Next == NextOrganize \/ NextBatch \/ NextScan \/ NextUtils \/ NextProperties \/ NextHistory

Spec == Init /\ [][Next]_vars

====
